---- MODULE Spec2Model ----
(***************************************************************************)
(* Model of src/record_linkage/demo/probablistic_match.py, the record-     *)
(* linkage script: Part 0 generates dataset A and its noised copy B and    *)
(* saves both; Part 1 loads the two files, matches them exactly, blocks on *)
(* zipcode, computes similarity features, fits the ECM classifier and      *)
(* analyses the posterior.                                                 *)
(*                                                                         *)
(* A table is a sequence of rows (position k of the sequence is the        *)
(* positional index k-1 of the DataFrame).  A name is a sequence of        *)
(* one-character strings.  DataFrames live in a heap (frames) and the      *)
(* script's names df_a, df_b hold references, so that copying and          *)
(* in-place writes are what the code makes them.                           *)
(*                                                                         *)
(* The repository's other scripts (networks.py, timeseries.py, sql.py,     *)
(* survey_exports_cleaning.py, reproducibility.py, llm_human.py) are       *)
(* modelled after the record-linkage script, each with its own variables   *)
(* and its own specification; pc names the statement of the script that    *)
(* is running.                                                             *)
(***************************************************************************)
EXTENDS Integers, Sequences, FiniteSets, TLC

VARIABLES
    pc,             \* position of the script
    n,              \* population size, line 50 (0: not bound)
    frames,         \* heap: reference -> table
    df_a, df_b,     \* references into frames (0: not bound yet)
    mod_firstname, mod_lastname, mod_birthyear,   \* boolean masks (lines 75-77)
    it,             \* iterations done by the running for-loop
    num_replace,    \* lines 86, 101 (0: not bound yet)
    files,          \* dataset_a.csv / dataset_b.csv on disk
    det_matches,    \* line 157
    candidate_pairs,\* line 191
    features,       \* line 211
    ecm,            \* the classifier object, line 221
    posterior,      \* line 224
    posterior_df,   \* line 227
    count_of_matches, \* line 247
    avg_dist_by_bin,  \* line 322
    stdout,         \* what the script has printed
    sfield, sa, sb, \* a compared column and two of its values (SpecSim)
    sim,            \* their similarities (SpecSim)
    \* src/network_data/demo/networks.py
    G,              \* line 90
    edge_list,      \* line 143
    G2,             \* line 150
    A_csr,          \* A, line 165
    \* src/timeseries/demo/timeseries.py (its n is the variable n above)
    test_n,         \* line 45
    test_idx_random, train_idx_random,   \* lines 48-49
    train_idx_time, test_idx_time,       \* lines 66-67
    \* src/databases_and_sql/demo/sql.py
    db,             \* the tables of campaign_finance.db (on disk)
    runs,           \* complete runs of the script so far
    candidates, contributors, contributions,   \* the DataFrames of Part 2
    \* src/survey_platform_crowdsourcing/demo/survey_exports_cleaning.py
    survey_clean,   \* with the flag columns of lines 254-267
    survey_final,   \* line 298
    \* src/reproducibility/demo/reproducibility.py
    rng,            \* state of numpy's global generator
    turnout_by_party_1, turnout_by_party_2,   \* lines 452, 491
    boot_coef_1, boot_coef_2,                 \* lines 462, 500
    same_turnout, same_bootcoef,              \* lines 503-504
    \* src/llm_human_interface/demo/llm_human.py
    extractions_df, \* line 293, with the flag columns of lines 315-323
    audit_random,   \* line 344
    audit_flagged,  \* line 346
    audit_sheet     \* lines 348-349

vars == <<pc, n, frames, df_a, df_b, mod_firstname, mod_lastname, mod_birthyear,
          it, num_replace, files, det_matches, candidate_pairs, features, ecm, posterior,
          posterior_df, count_of_matches, avg_dist_by_bin, stdout,
          sfield, sa, sb, sim,
          G, edge_list, G2, A_csr,
          test_n, test_idx_random, train_idx_random, train_idx_time, test_idx_time,
          db, runs, candidates, contributors, contributions,
          survey_clean, survey_final,
          rng, turnout_by_party_1, turnout_by_party_2, boot_coef_1, boot_coef_2,
          same_turnout, same_bootcoef,
          extractions_df, audit_random, audit_flagged, audit_sheet>>

genVars == <<n, frames, df_a, df_b, mod_firstname, mod_lastname, mod_birthyear,
            it, num_replace>>
linkVars == <<det_matches, candidate_pairs, features, ecm, posterior,
              posterior_df, count_of_matches, avg_dist_by_bin, stdout>>
simVars == <<sfield, sa, sb, sim>>
netVars == <<G, edge_list, G2, A_csr>>
tsVars == <<test_n, test_idx_random, train_idx_random, train_idx_time, test_idx_time>>
sqlVars == <<db, runs, candidates, contributors, contributions>>
surveyVars == <<survey_clean, survey_final>>
reproVars == <<rng, turnout_by_party_1, turnout_by_party_2, boot_coef_1, boot_coef_2,
               same_turnout, same_bootcoef>>
llmVars == <<extractions_df, audit_random, audit_flagged, audit_sheet>>
\* the variables of the scripts other than the record-linkage script
otherVars == <<netVars, tsVars, sqlVars, surveyVars, reproVars, llmVars>>

----------------------------------------------------------------------------
(* Bounds of the model *)

\* rows generated (n = 10000 at line 50)
MaxN == 2
\* rows generated in the specification of the whole script (SpecRun)
RunN == 1
\* cap on num_replace (randint(1, len(chars)+1) at lines 86, 101)
MaxReplace == 1
\* longest string given to the string similarity in SpecSim
SimMaxLen == 4
\* the integers given to the numeric and exact similarities in SpecSim run
\* from YearLo to YearLo + SimIntSpan
SimIntSpan == 4
\* the generator draws birth years YearLo .. YearLo + YearSpan (1970..2000 at
\* line 62) and zip codes ZipLo .. ZipLo + ZipSpan (10000..20000 at line 63)
YearSpan == 0
ZipSpan == 0
\* the files Part 1 loads hold zip codes ZipLo .. ZipLo + FileZipSpan; file A
\* holds the generator's years and file B years up to FileYearSpan later
FileYearSpan == 1
FileZipSpan == 1

YearLo == 1970
ZipLo == 10000

\* the names drawn at lines 55-56 (a prefix of each list)
first_names == { <<"J","o","h","n">>, <<"J","a","n","e">> }
last_names == { <<"S","m","i","t","h">> }
\* the substitution letters of lines 90, 105 (a subset of a..z)
Letters == { "h" }

Years == YearLo .. (YearLo + YearSpan)
Zips == ZipLo .. (ZipLo + ZipSpan)

----------------------------------------------------------------------------
(* Helpers *)

Min(a, b) == IF a < b THEN a ELSE b
Max(a, b) == IF a < b THEN b ELSE a
Abs(x) == IF x < 0 THEN -x ELSE x

Row(i, f, l, y, z) ==
    [id |-> i, firstname |-> f, lastname |-> l, birthyear |-> y, zipcode |-> z]

\* positions of the TRUE entries of a mask, ascending (np.where(mask)[0])
RECURSIVE Where(_)
Where(mask) ==
    IF mask = <<>> THEN <<>>
    ELSE LET m == Len(mask)
             front == Where(SubSeq(mask, 1, m - 1))
         IN  IF mask[m] THEN Append(front, m) ELSE front

\* drop_duplicates().reset_index(drop=True): the first occurrence of each row
\* (all columns, id included) is kept and the rows are renumbered
RECURSIVE DropDuplicates(_)
DropDuplicates(t) ==
    IF t = <<>> THEN <<>>
    ELSE LET m == Len(t)
             front == DropDuplicates(SubSeq(t, 1, m - 1))
         IN  IF \E j \in 1..(m - 1) : t[j] = t[m] THEN front ELSE Append(front, t[m])

\* tables of size rows with ids 1..size, the other fields independent
Tables(size, years, zips) ==
    { [k \in 1..size |-> Row(k, f[k], l[k], y[k], z[k])] :
        f \in [1..size -> first_names], l \in [1..size -> last_names],
        y \in [1..size -> years], z \in [1..size -> zips] }

\* the tables lines 58-64 can draw
GenTables(size) == Tables(size, Years, Zips)

\* df.copy(): a new frame with the same rows
CopyAliasRef(ref) == ref
CopyRef(ref) == ref + 1

SubstituteAppend(chars, positions, letter) ==
    chars \o [p \in 1..Cardinality(positions) |-> letter[p]]
\* chars after "for pos in positions: chars[pos] = choice(letters)"
Substitute(chars, positions, letter) ==
    [p \in 1..Len(chars) |-> IF p \in positions THEN letter[p] ELSE chars[p]]

\* the strings lines 87-92 can produce from chars by substituting at
\* k distinct positions (positions is drawn without replacement)
Typos(chars, k) ==
    { Substitute(chars, positions, letter) :
        positions \in { P \in SUBSET (1..Len(chars)) : Cardinality(P) = k },
        letter \in [1..Len(chars) -> Letters] }

\* np.arange(-2, 3), line 111
ShiftChoicesWide == (-3)..3
ShiftChoices == (-2)..2

----------------------------------------------------------------------------
(* Part 0: generate the two datasets *)

\* lines 58-64
GenerateA ==
    /\ pc = "gen"
    /\ \E t \in GenTables(n) :
          frames' = (1 :> t)
    /\ df_a' = 1
    /\ pc' = "dedup"
    /\ UNCHANGED <<df_b, mod_firstname, mod_lastname, mod_birthyear, it, files>>
    /\ UNCHANGED <<n, num_replace>>
    /\ UNCHANGED linkVars /\ UNCHANGED simVars /\ UNCHANGED otherVars

\* line 67: df_a is rebound to the deduplicated frame
DropDup ==
    /\ pc = "dedup"
    /\ frames' = (1 :> DropDuplicates(frames[df_a]))
    /\ pc' = "copy"
    /\ UNCHANGED <<df_a, df_b, mod_firstname, mod_lastname, mod_birthyear, it, files>>
    /\ UNCHANGED <<n, num_replace>>
    /\ UNCHANGED linkVars /\ UNCHANGED simVars /\ UNCHANGED otherVars

\* line 72
CopyB ==
    /\ pc = "copy"
    /\ df_b' = CopyRef(df_a)
    /\ frames' = (df_b' :> frames[df_a]) @@ frames
    /\ pc' = "masks"
    /\ UNCHANGED <<df_a, mod_firstname, mod_lastname, mod_birthyear, it, files>>
    /\ UNCHANGED <<n, num_replace>>
    /\ UNCHANGED linkVars /\ UNCHANGED simVars /\ UNCHANGED otherVars

\* lines 75-77
DrawMasks ==
    /\ pc = "masks"
    /\ LET len == Len(frames[df_b]) IN
         \E m1 \in [1..len -> BOOLEAN], m2 \in [1..len -> BOOLEAN],
            m3 \in [1..len -> BOOLEAN] :
            /\ mod_firstname' = m1
            /\ mod_lastname' = m2
            /\ mod_birthyear' = m3
    /\ it' = 0
    /\ pc' = "typo_first"
    /\ UNCHANGED <<frames, df_a, df_b, files>>
    /\ UNCHANGED <<n, num_replace>>
    /\ UNCHANGED linkVars /\ UNCHANGED simVars /\ UNCHANGED otherVars

\* df_b.loc[i, col] = value: an in-place write to the frame df_b refers to
SetCell(ref, i, col, value) ==
    [frames EXCEPT ![ref] = [@ EXCEPT ![i] = [@ EXCEPT ![col] = value]]]

\* lines 82-92, one iteration of the loop over idx_firstname
TypoFirst ==
    /\ pc = "typo_first"
    /\ LET idx_firstname == Where(mod_firstname) IN
         /\ it < Len(idx_firstname)
         /\ LET i == idx_firstname[it + 1]
                chars == frames[df_b][i].firstname
            IN  \E k \in 1..Min(Len(chars), MaxReplace) :
                   /\ num_replace' = k
                   /\ \E name \in Typos(chars, k) :
                         frames' = SetCell(df_b, i, "firstname", name)
    /\ it' = it + 1
    /\ UNCHANGED <<pc, n, df_a, df_b, mod_firstname, mod_lastname, mod_birthyear, files>>
    /\ UNCHANGED linkVars /\ UNCHANGED simVars /\ UNCHANGED otherVars

\* the loop of line 82 is exhausted
TypoFirstDone ==
    /\ pc = "typo_first"
    /\ it = Len(Where(mod_firstname))
    /\ it' = 0
    /\ pc' = "typo_last"
    /\ UNCHANGED <<frames, df_a, df_b, mod_firstname, mod_lastname, mod_birthyear, files>>
    /\ UNCHANGED <<n, num_replace>>
    /\ UNCHANGED linkVars /\ UNCHANGED simVars /\ UNCHANGED otherVars

\* lines 97-107, one iteration of the loop over idx_lastname
TypoLast ==
    /\ pc = "typo_last"
    /\ LET idx_lastname == Where(mod_lastname) IN
         /\ it < Len(idx_lastname)
         /\ LET i == idx_lastname[it + 1]
                chars == frames[df_b][i].lastname
            IN  \E k \in 1..Min(Len(chars), MaxReplace) :
                   /\ num_replace' = k
                   /\ \E name \in Typos(chars, k) :
                         frames' = SetCell(df_b, i, "lastname", name)
    /\ it' = it + 1
    /\ UNCHANGED <<pc, n, df_a, df_b, mod_firstname, mod_lastname, mod_birthyear, files>>
    /\ UNCHANGED linkVars /\ UNCHANGED simVars /\ UNCHANGED otherVars

\* the loop of line 97 is exhausted
TypoLastDone ==
    /\ pc = "typo_last"
    /\ it = Len(Where(mod_lastname))
    /\ it' = 0
    /\ pc' = "shift_birth"
    /\ UNCHANGED <<frames, df_a, df_b, mod_firstname, mod_lastname, mod_birthyear, files>>
    /\ UNCHANGED <<n, num_replace>>
    /\ UNCHANGED linkVars /\ UNCHANGED simVars /\ UNCHANGED otherVars

\* lines 110-112: one vectorised write of the shifted years
ShiftBirthYear ==
    /\ pc = "shift_birth"
    /\ LET idx_birthyear == Where(mod_birthyear)
           k == Len(idx_birthyear)
       IN  \E birthyear_shift \in [1..k -> ShiftChoices] :
              frames' = [frames EXCEPT ![df_b] =
                  [r \in 1..Len(@) |->
                     IF \E j \in 1..k : idx_birthyear[j] = r
                     THEN LET j == CHOOSE j \in 1..k : idx_birthyear[j] = r
                          IN  [@[r] EXCEPT !.birthyear = @ + birthyear_shift[j]]
                     ELSE @[r]]]
    /\ pc' = "save"
    /\ UNCHANGED <<df_a, df_b, mod_firstname, mod_lastname, mod_birthyear, it, files>>
    /\ UNCHANGED <<n, num_replace>>
    /\ UNCHANGED linkVars /\ UNCHANGED simVars /\ UNCHANGED otherVars


----------------------------------------------------------------------------
(* CSV files: to_csv(index=False) writes every cell as text, read_csv parses *)

NaN == <<"NaN">>

\* the strings read_csv takes for a missing value, among those a name of
\* letters can spell (pandas' default na_values, lines 130-131)
NaStrings == { <<"n","u","l","l">>, <<"n","a","n">>, <<"N","A">>,
               <<"N","a","N">>, <<"N","U","L","L">>, <<"N","o","n","e">>, <<>> }

DigitChars == <<"0","1","2","3","4","5","6","7","8","9">>

\* decimal text of a non-negative integer
RECURSIVE Digits(_)
Digits(v) ==
    IF v < 10 THEN <<DigitChars[v + 1]>>
    ELSE Append(Digits(v \div 10), DigitChars[(v % 10) + 1])

DigitValue(c) == (CHOOSE k \in 1..10 : DigitChars[k] = c) - 1

\* the integer a decimal text denotes
RECURSIVE ParseInt(_)
ParseInt(txt) ==
    IF Len(txt) = 1 THEN DigitValue(txt[1])
    ELSE 10 * ParseInt(SubSeq(txt, 1, Len(txt) - 1)) + DigitValue(txt[Len(txt)])

\* a missing name is written as the empty field
NameText(name) == IF name = NaN THEN <<>> ELSE name
ParseName(txt) == IF txt \in NaStrings THEN NaN ELSE txt

\* df.to_csv(path, index=False), lines 117-118
ToCsv(t) ==
    [k \in 1..Len(t) |->
        [id |-> Digits(t[k].id), firstname |-> NameText(t[k].firstname),
         lastname |-> NameText(t[k].lastname), birthyear |-> Digits(t[k].birthyear),
         zipcode |-> Digits(t[k].zipcode)]]

\* the file names of lines 117-118 and 130-131; files maps the key of a file
\* that exists to its rows
Path == [a |-> "dataset_a.csv", b |-> "dataset_b.csv"]

Columns == {"id", "firstname", "lastname", "birthyear", "zipcode"}
IntColumns == {"id", "birthyear", "zipcode"}

\* the columns of a table or of a file (those of its header row)
Header(t) == IF t = <<>> THEN Columns ELSE DOMAIN t[1]

\* pd.read_csv(path).set_index("id"), lines 130-135: every column of the
\* header is parsed, and the id column becomes the index (the row keeps it as
\* its label)
ReadCsv(f) ==
    IF Header(f) = Columns
    THEN [k \in 1..Len(f) |->
            Row(ParseInt(f[k].id), ParseName(f[k].firstname), ParseName(f[k].lastname),
                ParseInt(f[k].birthyear), ParseInt(f[k].zipcode))]
    ELSE [k \in 1..Len(f) |->
            [c \in Header(f) |-> IF c \in IntColumns THEN ParseInt(f[k][c])
                                 ELSE ParseName(f[k][c])]]

\* lines 117-118
Save ==
    /\ pc = "save"
    /\ files' = [a |-> ToCsv(frames[df_a]), b |-> ToCsv(frames[df_b])]
    /\ pc' = "load"
    /\ UNCHANGED genVars /\ UNCHANGED linkVars /\ UNCHANGED simVars /\ UNCHANGED otherVars

----------------------------------------------------------------------------
(* Part 1: load *)

\* df.head(): the first five rows
HeadRows(t) == SubSeq(t, 1, Min(5, Len(t)))

\* lines 130-147: df_a and df_b are rebound to the frames read from disk, and
\* their first rows are printed
Load ==
    /\ pc = "load"
    /\ IF \E k \in {"a", "b"} : k \notin DOMAIN files
       THEN \* read_csv raises FileNotFoundError, whose message holds the path
            \* (line 130, or line 131 when only the second file is missing)
            LET k == IF "a" \notin DOMAIN files THEN "a" ELSE "b" IN
            /\ stdout' = Append(stdout, [what |-> "Traceback",
                                         value |-> <<"FileNotFoundError", Path[k]>>])
            /\ pc' = "raised_load"
            /\ UNCHANGED <<frames, df_a, df_b>>
       ELSE IF \E k \in {"a", "b"} : "id" \notin Header(files[k])
       THEN \* set_index("id") raises KeyError, whose message holds the column
            \* (lines 134-135)
            /\ stdout' = Append(stdout, [what |-> "Traceback",
                                         value |-> <<"KeyError", "id">>])
            /\ pc' = "raised_load"
            /\ UNCHANGED <<frames, df_a, df_b>>
       ELSE /\ df_a' = 1
            /\ df_b' = 2
            /\ frames' = (1 :> ReadCsv(files.a)) @@ (2 :> ReadCsv(files.b))
            /\ stdout' = stdout \o
                  << [what |-> "df_a.head", value |-> HeadRows(frames'[1])],
                     [what |-> "df_b.head", value |-> HeadRows(frames'[2])] >>
            /\ pc' = "det"
    /\ UNCHANGED <<n, mod_firstname, mod_lastname, mod_birthyear, it, num_replace, files>>
    /\ UNCHANGED <<det_matches, candidate_pairs, features, ecm, posterior,
                   posterior_df, count_of_matches, avg_dist_by_bin>>
    /\ UNCHANGED simVars /\ UNCHANGED otherVars

----------------------------------------------------------------------------
(* Step 3: deterministic matching *)

\* concatenation of a sequence of sequences
RECURSIVE Flatten(_)
Flatten(ss) ==
    IF ss = <<>> THEN <<>> ELSE Flatten(SubSeq(ss, 1, Len(ss) - 1)) \o ss[Len(ss)]

\* the columns of on=[...] at line 161
DetOn == {"firstname", "lastname", "birthyear", "zipcode"}
DetOnNoZip == {"firstname", "lastname", "birthyear"}

AgreeOnAny(a, b, on) == \E c \in on : a[c] = b[c]
\* the rows have the same value in every key column
AgreeOn(a, b, on) == \A c \in on : a[c] = b[c]

\* left.merge(right, on=on, how="inner", suffixes=(".a", ".b")): one row for
\* every (left row, right row) that agree on the key columns, in left order
MergeInner(left, right, on) ==
    Flatten([i \in 1..Len(left) |->
        LET hit(r) == AgreeOn(left[i], r, on)
            rs == SelectSeq(right, hit)
        IN  [j \in 1..Len(rs) |->
               [id_a |-> left[i].id, firstname |-> left[i].firstname,
                lastname |-> left[i].lastname, birthyear |-> left[i].birthyear,
                zipcode |-> left[i].zipcode, id_b |-> rs[j].id]]])

DetMatchesNoZip(A, B) == MergeInner(A, B, DetOnNoZip)
\* lines 157-165
DetMatches(A, B) == MergeInner(A, B, DetOn)

\* the exact match followed at once by the comparison, the blocking left out
DetMatchThenCompare ==
    /\ pc = "det"
    /\ det_matches' = DetMatches(frames[df_a], frames[df_b])
    /\ stdout' = Append(stdout, [what |-> "Number of deterministic matches:",
                                 value |-> Len(det_matches')])
    /\ pc' = "compare"
    /\ UNCHANGED genVars /\ UNCHANGED files /\ UNCHANGED simVars /\ UNCHANGED otherVars
    /\ UNCHANGED <<candidate_pairs, features, ecm, posterior, posterior_df,
                   count_of_matches, avg_dist_by_bin>>

\* lines 157-167; merge raises KeyError when a table lacks a key column
DetMatch ==
    /\ pc = "det"
    /\ IF DetOn \subseteq (Header(frames[df_a]) \cap Header(frames[df_b]))
       THEN /\ det_matches' = DetMatches(frames[df_a], frames[df_b])
            /\ stdout' = Append(stdout, [what |-> "Number of deterministic matches:",
                                         value |-> Len(det_matches')])
            /\ pc' = "block"
       ELSE /\ stdout' = Append(stdout, [what |-> "Traceback",
                    value |-> <<"KeyError",
                                CHOOSE c \in DetOn : c \notin (Header(frames[df_a])
                                                        \cap Header(frames[df_b]))>>])
            /\ pc' = "raised_det"
            /\ UNCHANGED det_matches
    /\ UNCHANGED genVars /\ UNCHANGED files /\ UNCHANGED simVars /\ UNCHANGED otherVars
    /\ UNCHANGED <<candidate_pairs, features, ecm, posterior, posterior_df,
                   count_of_matches, avg_dist_by_bin>>

----------------------------------------------------------------------------
(* Step 4A: blocking *)

\* indexer.block(key); indexer.index(A, B): the (index of A, index of B) pairs
\* whose rows have the same value of key
BlockIndex(A, B, key) ==
    Flatten([i \in 1..Len(A) |->
        LET hit(r) == r[key] = A[i][key]
            rs == SelectSeq(B, hit)
        IN  [j \in 1..Len(rs) |-> <<A[i].id, rs[j].id>>]])

CandidatePairsByYear(A, B) == BlockIndex(A, B, "birthyear")
\* lines 189-191
CandidatePairs(A, B) == BlockIndex(A, B, "zipcode")

Block ==
    /\ pc = "block"
    /\ candidate_pairs' = CandidatePairs(frames[df_a], frames[df_b])
    /\ stdout' = Append(stdout, [what |-> "Number of candidate pairs after blocking:",
                                 value |-> Len(candidate_pairs')])
    /\ pc' = "compare"
    /\ UNCHANGED genVars /\ UNCHANGED files /\ UNCHANGED simVars /\ UNCHANGED otherVars
    /\ UNCHANGED <<det_matches, features, ecm, posterior, posterior_df,
                   count_of_matches, avg_dist_by_bin>>


----------------------------------------------------------------------------
(* Step 4B: similarity features.  A string similarity is a fraction         *)
(* <<numerator, denominator>> in lowest terms; the Gaussian similarity      *)
(* 2^(-e) is kept as its exponent e >= 0, a fraction too.                   *)

RECURSIVE GCD(_, _)
GCD(a, b) == IF b = 0 THEN a ELSE GCD(b, a % b)

Frac(num, den) == LET g == GCD(num, den) IN <<num \div g, den \div g>>
FracZero == <<0, 1>>
FracOne == <<1, 1>>
FracLess(x, y) == x[1] * y[2] < y[1] * x[2]

\* the elements of a set of integers, ascending
RECURSIVE SortedSeq(_)
SortedSeq(S) ==
    IF S = {} THEN <<>>
    ELSE LET m == CHOOSE x \in S : \A y \in S : y <= x
         IN  Append(SortedSeq(S \ {m}), m)

JaroRangeFirstOnly(s1, s2) == Max(0, (Len(s1) \div 2) - 1)
\* search_range = max(len(s1), len(s2)) // 2 - 1, not below 0
JaroRange(s1, s2) == Max(0, (Max(Len(s1), Len(s2)) \div 2) - 1)

\* the matching pass: each character of s1, left to right, takes the first
\* unflagged equal character of s2 inside the search range.  The result is
\* <<flagged positions of s1, flagged positions of s2>>.
RECURSIVE JaroFlags(_, _, _, _, _)
JaroFlags(s1, s2, i, f1, f2) ==
    IF i > Len(s1) THEN <<f1, f2>>
    ELSE LET sr == JaroRange(s1, s2)
             low == Max(1, i - sr)
             hi == Min(i + sr, Len(s2))
             cand == { j \in low..hi : j \notin f2 /\ s2[j] = s1[i] }
         IN  IF cand = {} THEN JaroFlags(s1, s2, i + 1, f1, f2)
             ELSE LET j == CHOOSE x \in cand : \A y \in cand : x <= y
                  IN  JaroFlags(s1, s2, i + 1, f1 \cup {i}, f2 \cup {j})

\* half the number of flagged characters that are out of order
JaroTranspositions(s1, s2, f1, f2) ==
    LET o1 == SortedSeq(f1)
        o2 == SortedSeq(f2)
    IN  Cardinality({ k \in 1..Len(o1) : s1[o1[k]] # s2[o2[k]] }) \div 2

\* length of the common prefix, at most lim
RECURSIVE CommonPrefix(_, _, _)
CommonPrefix(s1, s2, lim) ==
    IF lim = 0 \/ s1 = <<>> \/ s2 = <<>> \/ s1[1] # s2[1] THEN 0
    ELSE 1 + CommonPrefix(Tail(s1), Tail(s2), lim - 1)

\* the Jaro-Winkler similarity of two strings (method="jarowinkler")
JaroWinkler(s1, s2) ==
    IF s1 = <<>> \/ s2 = <<>> THEN FracZero
    ELSE LET fl == JaroFlags(s1, s2, 1, {}, {})
             c == Cardinality(fl[1])
             l1 == Len(s1)
             l2 == Len(s2)
         IN  IF c = 0 THEN FracZero
             ELSE LET t == JaroTranspositions(s1, s2, fl[1], fl[2])
                      \* (c/l1 + c/l2 + (c-t)/c) / 3
                      w == Frac(c * c * l2 + c * c * l1 + (c - t) * l1 * l2,
                                3 * l1 * l2 * c)
                      p == CommonPrefix(s1, s2, Min(Min(l1, l2), 4))
                  IN  IF FracLess(<<7, 10>>, w) /\ p > 0
                      \* w + p * 0.1 * (1 - w)
                      THEN Frac((10 - p) * w[1] + p * w[2], 10 * w[2])
                      ELSE w

\* compare.string(..., method="jarowinkler"), lines 206-207: a missing value
\* on either side scores 0
StringSim(a, b) == IF a = NaN \/ b = NaN THEN FracZero ELSE JaroWinkler(a, b)

GaussOffset == 0
GaussScale == 2

\* compare.numeric(..., method="gauss", offset=0, scale=2), line 208:
\* 2^(-((|a-b| - offset)/scale)^2), and 1 within the offset; the value kept is
\* the exponent ((|a-b| - offset)/scale)^2
GaussSim(a, b) ==
    LET d == Abs(a - b)
    IN  IF d <= GaussOffset THEN FracZero
        ELSE Frac((d - GaussOffset) * (d - GaussOffset), GaussScale * GaussScale)

\* compare.exact, line 209
ExactSim(a, b) == IF a = b THEN 1 ELSE 0

RowById(t, id) == t[CHOOSE k \in 1..Len(t) : t[k].id = id]

\* the comparison registered for each column, lines 206-209
FieldSim(field, a, b) ==
    CASE field \in {"firstname", "lastname"} -> StringSim(a, b)
      [] field = "birthyear" -> GaussSim(a, b)
      [] field = "zipcode" -> ExactSim(a, b)

\* the comparison vector of one candidate pair
CompareVector(a, b) ==
    [firstname_sim |-> FieldSim("firstname", a.firstname, b.firstname),
     lastname_sim |-> FieldSim("lastname", a.lastname, b.lastname),
     birthyear_sim |-> FieldSim("birthyear", a.birthyear, b.birthyear),
     zipcode_exact |-> FieldSim("zipcode", a.zipcode, b.zipcode)]

\* the cross product of the two indexes
AllPairs(A, B) ==
    Flatten([i \in 1..Len(A) |-> [j \in 1..Len(B) |-> <<A[i].id, B[j].id>>]])

ComputeAllPairs(pairs, A, B) ==
    LET all == AllPairs(A, B) IN
    [k \in 1..Len(all) |->
        [id_a |-> all[k][1], id_b |-> all[k][2],
         vec |-> CompareVector(RowById(A, all[k][1]), RowById(B, all[k][2]))]]
\* compare.compute(pairs, A, B), line 211: one row per pair, indexed by it
Compute(pairs, A, B) ==
    [k \in 1..Len(pairs) |->
        [id_a |-> pairs[k][1], id_b |-> pairs[k][2],
         vec |-> CompareVector(RowById(A, pairs[k][1]), RowById(B, pairs[k][2]))]]

CompareFeatures ==
    /\ pc = "compare"
    /\ features' = Compute(candidate_pairs, frames[df_a], frames[df_b])
    /\ stdout' = Append(stdout, [what |-> "features.head", value |-> HeadRows(features')])
    /\ pc' = "fit"
    /\ UNCHANGED genVars /\ UNCHANGED files /\ UNCHANGED simVars /\ UNCHANGED otherVars
    /\ UNCHANGED <<det_matches, candidate_pairs, ecm, posterior, posterior_df,
                   count_of_matches, avg_dist_by_bin>>


----------------------------------------------------------------------------
(* Step 4C: the ECM classifier.  Probabilities are fixed-point numbers in   *)
(* units of 1e-7, so that 1.0 is ProbOne and 0.000001 is 10.                *)

ProbOne == 10000000

\* the probabilities a fitted classifier may give (a sample of [0, 1])
PosteriorGrid == { 0, 3500000, ProbOne }

\* the distinct comparison vectors of a feature table
Vectors(f) == { f[k].vec : k \in 1..Len(f) }

\* lines 221-222: ecm = rl.ECMClassifier(); ecm.fit(features).  The fit is the
\* library's: what the script sees of it is a classifier that gives every
\* comparison vector a probability; whether the EM iteration met its
\* tolerance before its iteration cap stays inside the object, and the value
\* fit returns is dropped.
EcmFit ==
    /\ pc = "fit"
    /\ \E converged \in BOOLEAN, score \in [Vectors(features) -> PosteriorGrid] :
          ecm' = [fitted |-> TRUE, converged |-> converged, score |-> score]
    /\ pc' = "prob"
    /\ UNCHANGED genVars /\ UNCHANGED files /\ UNCHANGED simVars /\ UNCHANGED otherVars
    /\ UNCHANGED <<det_matches, candidate_pairs, features, posterior, posterior_df,
                   count_of_matches, avg_dist_by_bin, stdout>>

\* ecm.prob(features), line 224: a Series indexed like features
EcmProb(f, score) ==
    [k \in 1..Len(f) |-> [idx |-> <<f[k].id_a, f[k].id_b>>, val |-> score[f[k].vec]]]

\* posterior.reset_index() with columns id_a, id_b, posterior, lines 227-228
ResetIndex(series) ==
    [k \in 1..Len(series) |->
        [id_a |-> series[k].idx[1], id_b |-> series[k].idx[2],
         posterior |-> series[k].val]]

\* lines 224-230
Prob ==
    /\ pc = "prob"
    /\ posterior' = EcmProb(features, ecm.score)
    /\ posterior_df' = ResetIndex(posterior')
    /\ stdout' = Append(stdout, [what |-> "posterior_df.head", value |-> HeadRows(posterior_df')])
    /\ pc' = "sweep"
    /\ UNCHANGED genVars /\ UNCHANGED files /\ UNCHANGED simVars /\ UNCHANGED otherVars
    /\ UNCHANGED <<det_matches, candidate_pairs, features, ecm,
                   count_of_matches, avg_dist_by_bin>>

----------------------------------------------------------------------------
(* Step 5: threshold sweep *)

ThresholdStart == 0
ThresholdStop == 10100000
ThresholdStep == 100000

\* np.arange(start, stop, step): ceil((stop - start) / step) values
ARange(start, stop, step) ==
    [i \in 1..((stop - start + step - 1) \div step) |-> start + (i - 1) * step]

\* line 241
threshold_grid == ARange(ThresholdStart, ThresholdStop, ThresholdStep)

MatchCountBelow(series, th) == Cardinality({ k \in 1..Len(series) : series[k].val <= th })
MatchCountStrict(series, th) == Cardinality({ k \in 1..Len(series) : series[k].val > th })
\* (posterior >= th).sum(), line 245
MatchCount(series, th) == Cardinality({ k \in 1..Len(series) : series[k].val >= th })

\* lines 241-250: the loop draws nothing, so it is one step
Sweep ==
    /\ pc = "sweep"
    /\ count_of_matches' =
          [i \in 1..Len(threshold_grid) |->
              [threshold |-> threshold_grid[i],
               matches |-> MatchCount(posterior, threshold_grid[i])]]
    /\ pc' = "bins"
    /\ UNCHANGED genVars /\ UNCHANGED files /\ UNCHANGED simVars /\ UNCHANGED otherVars
    /\ UNCHANGED <<det_matches, candidate_pairs, features, ecm, posterior,
                   posterior_df, avg_dist_by_bin, stdout>>


----------------------------------------------------------------------------
(* Step 6: distances by posterior bin *)

\* 0.000001, line 278
LowCut == 10

BinStart == 0
BinStop == 10000001
BinStep == 1000000

\* line 280
bin_edges == ARange(BinStart, BinStop, BinStep)

\* lines 281-284
bin_labels == << "0.0-0.1", "0.1-0.2", "0.2-0.3", "0.3-0.4", "0.4-0.5",
                 "0.5-0.6", "0.6-0.7", "0.7-0.8", "0.8-0.9", "0.9-1.0" >>

CutLeftClosed(x) ==
    IF \E b \in 1..(Len(bin_edges) - 1) : bin_edges[b] <= x /\ x < bin_edges[b + 1]
    THEN bin_labels[CHOOSE b \in 1..(Len(bin_edges) - 1) :
                        bin_edges[b] <= x /\ x < bin_edges[b + 1]]
    ELSE "NaN"
\* pd.cut(x, bins=bin_edges, labels=bin_labels, right=True), lines 286-291:
\* the label of the interval (edge, next edge] holding x, NaN outside them
Cut(x) ==
    IF \E b \in 1..(Len(bin_edges) - 1) : bin_edges[b] < x /\ x <= bin_edges[b + 1]
    THEN bin_labels[CHOOSE b \in 1..(Len(bin_edges) - 1) :
                        bin_edges[b] < x /\ x <= bin_edges[b + 1]]
    ELSE "NaN"

\* posterior_df[posterior_df["posterior"] > 0.000001] with its bin, lines 278-291
MatchesLow(pdf) ==
    LET keep(r) == r.posterior > LowCut
        rows == SelectSeq(pdf, keep)
    IN  [k \in 1..Len(rows) |->
           [id_a |-> rows[k].id_a, id_b |-> rows[k].id_b,
            posterior |-> rows[k].posterior, threshold_bin |-> Cut(rows[k].posterior)]]

\* the rows of t whose id is the given one; a left join keeps a row without a
\* partner, with missing values
Partners(t, id) ==
    LET hit(r) == r.id = id
        rs == SelectSeq(t, hit)
    IN  IF rs = <<>> THEN << Row(id, NaN, NaN, NaN, NaN) >> ELSE rs

\* the two left joins of lines 294-308
PairsPlusAB(low, A, B) ==
    Flatten([k \in 1..Len(low) |->
        LET as == Partners(A, low[k].id_a)
            bs == Partners(B, low[k].id_b)
        IN  Flatten([i \in 1..Len(as) |->
               [j \in 1..Len(bs) |-> [pair |-> low[k], a |-> as[i], b |-> bs[j]]]])])

\* one row of the edit-distance table from the row before it
RECURSIVE LevRow(_, _, _, _)
LevRow(prev, ch, s2, cur) ==
    LET j == Len(cur) IN
    IF j > Len(s2) THEN cur
    ELSE LevRow(prev, ch, s2,
            Append(cur, Min(Min(prev[j + 1] + 1, cur[j] + 1),
                            prev[j] + (IF ch = s2[j] THEN 0 ELSE 1))))

RECURSIVE LevRows(_, _, _, _)
LevRows(s1, s2, i, prev) ==
    IF i > Len(s1) THEN prev[Len(s2) + 1]
    ELSE LevRows(s1, s2, i + 1, LevRow(prev, s1[i], s2, <<i>>))

\* Levenshtein.distance(a, b), lines 312, 315
Levenshtein(a, b) == LevRows(a, b, 1, [j \in 1..(Len(b) + 1) |-> j - 1])

\* lines 311-319: the three distance columns
WithDistances(rows) ==
    [k \in 1..Len(rows) |->
        [threshold_bin |-> rows[k].pair.threshold_bin,
         first_name_distance |-> Levenshtein(rows[k].a.firstname, rows[k].b.firstname),
         last_name_distance |-> Levenshtein(rows[k].a.lastname, rows[k].b.lastname),
         birth_year_distance |-> Abs(rows[k].a.birthyear - rows[k].b.birthyear)]]

RECURSIVE SumCol(_, _)
SumCol(rows, col) ==
    IF rows = <<>> THEN 0 ELSE rows[1][col] + SumCol(Tail(rows), col)

MeanOrZero(rows, col) ==
    IF rows = <<>> THEN FracZero ELSE Frac(SumCol(rows, col), Len(rows))
\* the mean of a column over the rows of a group: NaN for an empty group
Mean(rows, col) ==
    IF rows = <<>> THEN NaN ELSE Frac(SumCol(rows, col), Len(rows))

\* lines 322-332: one row per bin label (observed=False keeps empty bins)
AvgDistByBin(rows) ==
    LET d == WithDistances(rows) IN
    [b \in 1..Len(bin_labels) |->
        LET in(r) == r.threshold_bin = bin_labels[b]
            g == SelectSeq(d, in)
        IN  [threshold_bin |-> bin_labels[b],
             mean_first |-> Mean(g, "first_name_distance"),
             mean_last |-> Mean(g, "last_name_distance"),
             mean_birth |-> Mean(g, "birth_year_distance"),
             n |-> Len(g)]]

\* Levenshtein.distance raises a TypeError on a missing value
HasMissingName(rows) ==
    \E k \in 1..Len(rows) :
        NaN \in { rows[k].a.firstname, rows[k].b.firstname,
                  rows[k].a.lastname, rows[k].b.lastname }

\* lines 278-334
Bins ==
    /\ pc = "bins"
    /\ LET rows == PairsPlusAB(MatchesLow(posterior_df), frames[df_a], frames[df_b]) IN
         IF HasMissingName(rows)
         THEN /\ pc' = "raised"
              /\ UNCHANGED <<avg_dist_by_bin, stdout>>
         ELSE /\ avg_dist_by_bin' = AvgDistByBin(rows)
              /\ stdout' = Append(stdout, [what |-> "avg_dist_by_bin",
                                           value |-> avg_dist_by_bin'])
              /\ pc' = "done"
    /\ UNCHANGED genVars /\ UNCHANGED files /\ UNCHANGED simVars /\ UNCHANGED otherVars
    /\ UNCHANGED <<det_matches, candidate_pairs, features, ecm, posterior,
                   posterior_df, count_of_matches>>

----------------------------------------------------------------------------
(* The specifications *)

\* the other scripts have bound none of their names yet
InitOther ==
    /\ G = <<>> /\ edge_list = <<>> /\ G2 = <<>> /\ A_csr = <<>>
    /\ test_n = 0
    /\ test_idx_random = <<>> /\ train_idx_random = <<>>
    /\ train_idx_time = <<>> /\ test_idx_time = <<>>
    /\ db = <<>> /\ runs = 0
    /\ candidates = <<>> /\ contributors = <<>> /\ contributions = <<>>
    /\ survey_clean = <<>> /\ survey_final = <<>>
    /\ rng = 0
    /\ turnout_by_party_1 = <<>> /\ turnout_by_party_2 = <<>>
    /\ boot_coef_1 = <<>> /\ boot_coef_2 = <<>>
    /\ same_turnout = <<>> /\ same_bootcoef = <<>>
    /\ extractions_df = <<>> /\ audit_random = <<>>
    /\ audit_flagged = <<>> /\ audit_sheet = <<>>

InitCommon ==
    /\ InitOther
    /\ frames = <<>>
    /\ df_a = 0
    /\ df_b = 0
    /\ mod_firstname = <<>>
    /\ mod_lastname = <<>>
    /\ mod_birthyear = <<>>
    /\ it = 0
    /\ num_replace = 0
    /\ det_matches = <<>>
    /\ candidate_pairs = <<>>
    /\ features = <<>>
    /\ ecm = [fitted |-> FALSE]
    /\ posterior = <<>>
    /\ posterior_df = <<>>
    /\ count_of_matches = <<>>
    /\ avg_dist_by_bin = <<>>
    /\ stdout = <<>>

\* Part 0 of the script, from line 49 to the files of lines 117-118
InitGen ==
    /\ pc = "gen"
    /\ n = MaxN
    /\ files = [a |-> <<>>, b |-> <<>>]
    /\ InitCommon
    /\ sfield = "" /\ sa = <<>> /\ sb = <<>> /\ sim = <<>>

NextGen ==
    \/ GenerateA
    \/ DropDup
    \/ CopyB
    \/ DrawMasks
    \/ TypoFirst
    \/ TypoFirstDone
    \/ TypoLast
    \/ TypoLastDone
    \/ ShiftBirthYear
    \/ Save

SpecGen == InitGen /\ [][NextGen]_vars

\* the tables the two files may hold when Part 1 starts: ids 1..n, the names
\* of the generator, any of the zip codes; the years of B may be shifted
FileZips == ZipLo .. (ZipLo + FileZipSpan)
FileTablesA == Tables(MaxN, Years, FileZips)
FileTablesB == Tables(MaxN, YearLo .. (YearLo + YearSpan + FileYearSpan), FileZips)

\* Part 1 of the script, from the files on disk (line 130) to the end
\* a file without one of its columns
DropColumn(f, col) ==
    [k \in 1..Len(f) |-> [c \in (DOMAIN f[k]) \ {col} |-> f[k][c]]]

\* what the working directory may hold when Part 1 starts: the two files, or
\* one of them only, or a first file that lacks a column
Directories(tA, tB) ==
    { [a |-> ToCsv(tA), b |-> ToCsv(tB)],
      [a |-> ToCsv(tA)],
      [b |-> ToCsv(tB)],
      [a |-> DropColumn(ToCsv(tA), "id"), b |-> ToCsv(tB)],
      [a |-> DropColumn(ToCsv(tA), "zipcode"), b |-> ToCsv(tB)] }

InitLink ==
    /\ pc = "load"
    /\ n = 0
    /\ \E tA \in FileTablesA, tB \in FileTablesB :
          files \in Directories(tA, tB)
    /\ InitCommon
    /\ sfield = "" /\ sa = <<>> /\ sb = <<>> /\ sim = <<>>

NextLink ==
    \/ Load
    \/ DetMatch
    \/ Block
    \/ CompareFeatures
    \/ EcmFit
    \/ Prob
    \/ Sweep
    \/ Bins

SpecLink == InitLink /\ [][NextLink]_vars

\* the script from line 49 to the candidate pairs of line 193: the generated
\* files are loaded, matched exactly and blocked
NextMatch ==
    \/ GenerateA
    \/ DropDup
    \/ CopyB
    \/ DrawMasks
    \/ TypoFirst
    \/ TypoFirstDone
    \/ TypoLast
    \/ TypoLastDone
    \/ ShiftBirthYear
    \/ Save
    \/ Load
    \/ DetMatch
    \/ Block

SpecMatch == InitGen /\ [][NextMatch]_vars

\* the whole script, lines 49-334, on a population of RunN rows
InitRun ==
    /\ pc = "gen"
    /\ n = RunN
    /\ files = [a |-> <<>>, b |-> <<>>]
    /\ InitCommon
    /\ sfield = "" /\ sa = <<>> /\ sb = <<>> /\ sim = <<>>

NextRun ==
    \/ GenerateA
    \/ DropDup
    \/ CopyB
    \/ DrawMasks
    \/ TypoFirst
    \/ TypoFirstDone
    \/ TypoLast
    \/ TypoLastDone
    \/ ShiftBirthYear
    \/ Save
    \/ Load
    \/ DetMatch
    \/ Block
    \/ CompareFeatures
    \/ EcmFit
    \/ Prob
    \/ Sweep
    \/ Bins

SpecRun == InitRun /\ [][NextRun]_vars

\* the script from the save of line 117 on, for one record and every outcome
\* of the first-name loop on it: num_replace is any of 1..len(chars)
\* (line 86) and the letters are drawn from CsvLetters
CsvLetters == { "n", "u", "l" }

\* a name after num_replace distinct positions (replace=False, line 87) got
\* a letter each
NoiseOutcomes(chars) ==
    { [k |-> Cardinality(positions), name |-> Substitute(chars, positions, letter)] :
        positions \in (SUBSET (1..Len(chars))) \ { {} },
        letter \in [1..Len(chars) -> CsvLetters] }

InitCsv ==
    /\ pc = "save"
    /\ InitOther
    /\ n = 1
    /\ df_a = 1
    /\ df_b = CopyRef(df_a)
    /\ \E f \in first_names, l \in last_names :
          \E o \in NoiseOutcomes(f) :
             /\ frames = (df_a :> << Row(1, f, l, YearLo, ZipLo) >>)
                          @@ (df_b :> << Row(1, o.name, l, YearLo, ZipLo) >>)
             /\ num_replace = o.k
    /\ mod_firstname = << TRUE >>
    /\ mod_lastname = << FALSE >>
    /\ mod_birthyear = << FALSE >>
    /\ it = 0
    /\ files = [a |-> <<>>, b |-> <<>>]
    /\ det_matches = <<>>
    /\ candidate_pairs = <<>>
    /\ features = <<>>
    /\ ecm = [fitted |-> FALSE]
    /\ posterior = <<>>
    /\ posterior_df = <<>>
    /\ count_of_matches = <<>>
    /\ avg_dist_by_bin = <<>>
    /\ stdout = <<>>
    /\ sfield = "" /\ sa = <<>> /\ sb = <<>> /\ sim = <<>>

NextCsv ==
    \/ Save
    \/ Load
    \/ DetMatch
    \/ Block
    \/ CompareFeatures
    \/ EcmFit
    \/ Prob
    \/ Sweep
    \/ Bins

SpecCsv == InitCsv /\ [][NextCsv]_vars


\* the similarity functions of lines 206-209 on their own: a column and two
\* values of it, compared in both orders and with themselves
SimLetters == { "a", "b", "c" }

\* the non-empty strings of at most n letters
RECURSIVE Strings(_)
Strings(len) ==
    IF len = 0 THEN { <<>> }
    ELSE LET shorter == Strings(len - 1)
         IN  shorter \cup { Append(w, c) : w \in shorter, c \in SimLetters }

SimValues(field) ==
    IF field \in {"firstname", "lastname"} THEN Strings(SimMaxLen) \ { <<>> }
    ELSE YearLo .. (YearLo + SimIntSpan)

InitSim ==
    /\ pc = "sim"
    /\ n = 0
    /\ files = [a |-> <<>>, b |-> <<>>]
    /\ InitCommon
    /\ sfield \in {"firstname", "birthyear", "zipcode"}
    /\ sa \in SimValues(sfield)
    /\ sb \in SimValues(sfield)
    /\ sim = <<>>

Similarity ==
    /\ pc = "sim"
    /\ sim' = [ab |-> FieldSim(sfield, sa, sb), ba |-> FieldSim(sfield, sb, sa),
               aa |-> FieldSim(sfield, sa, sa)]
    /\ pc' = "sim_done"
    /\ UNCHANGED <<sfield, sa, sb, files>>
    /\ UNCHANGED genVars /\ UNCHANGED linkVars
    /\ UNCHANGED otherVars

NextSim == Similarity

SpecSim == InitSim /\ [][NextSim]_vars


----------------------------------------------------------------------------
(* Properties *)

Range(seq) == { seq[k] : k \in 1..Len(seq) }

NoisePcs == {"masks", "typo_first", "typo_last", "shift_birth"}

\* a step of the noising leaves every row of df_a as it was
NoiseStepKeepsA ==
    pc \in NoisePcs =>
          /\ df_a' = df_a
          /\ Len(frames'[df_a']) = Len(frames[df_a])
          /\ \A k \in 1..Len(frames[df_a]) :
                /\ frames'[df_a'][k].id = frames[df_a][k].id
                /\ frames'[df_a'][k].firstname = frames[df_a][k].firstname
                /\ frames'[df_a'][k].lastname = frames[df_a][k].lastname
                /\ frames'[df_a'][k].birthyear = frames[df_a][k].birthyear
                /\ frames'[df_a'][k].zipcode = frames[df_a][k].zipcode

\* C1: the noising steps (the masks, the first-name typos, the last-name
\* typos, the birth-year shift) write only to the copy: no step taken between
\* the creation of df_b and the saving of the files changes any row of the
\* table df_a refers to.
C1_NoiseWritesOnlyTheCopy == [][NoiseStepKeepsA]_vars

\* all three noising steps have run and have changed every noised field of
\* some row of df_b
C1_Witness ==
    /\ pc = "save"
    /\ \E k \in 1..Len(frames[df_b]) :
          /\ mod_firstname[k] /\ mod_lastname[k] /\ mod_birthyear[k]
          /\ frames[df_b][k].firstname # frames[df_a][k].firstname
          /\ frames[df_b][k].lastname # frames[df_a][k].lastname
          /\ frames[df_b][k].birthyear # frames[df_a][k].birthyear

AfterDet == {"block", "compare", "fit", "prob", "sweep", "bins", "done", "raised"}
AfterBlock == AfterDet \ {"block"}
AfterProb == {"sweep", "bins", "done", "raised"}
AfterSweep == {"bins", "done", "raised"}

SameFour(a, b) ==
    /\ a.firstname = b.firstname
    /\ a.lastname = b.lastname
    /\ a.birthyear = b.birthyear
    /\ a.zipcode = b.zipcode

\* C2: det_matches holds exactly the (row of A, row of B) pairs that agree on
\* firstname, lastname, birthyear and zipcode: every row of det_matches is
\* such a pair, every such pair of the cross product has a row (whether or
\* not the two ids are equal), and no pair has two rows.
C2_ExactMatchIsTheEquiJoin ==
    pc \in AfterDet =>
        LET A == frames[df_a]
            B == frames[df_b]
        IN  /\ \A k \in 1..Len(det_matches) :
                  \E i \in 1..Len(A), j \in 1..Len(B) :
                     /\ A[i].id = det_matches[k].id_a
                     /\ B[j].id = det_matches[k].id_b
                     /\ SameFour(A[i], B[j])
            /\ \A i \in 1..Len(A), j \in 1..Len(B) :
                  SameFour(A[i], B[j]) =>
                     \E k \in 1..Len(det_matches) :
                        /\ det_matches[k].id_a = A[i].id
                        /\ det_matches[k].id_b = B[j].id
            /\ \A k1, k2 \in 1..Len(det_matches) :
                  (/\ det_matches[k1].id_a = det_matches[k2].id_a
                   /\ det_matches[k1].id_b = det_matches[k2].id_b) => k1 = k2

\* a pair of different ids is matched while another pair of the cross product
\* is not
C2_Witness ==
    /\ pc \in AfterDet
    /\ \E k \in 1..Len(det_matches) : det_matches[k].id_a # det_matches[k].id_b
    /\ Len(det_matches) < Len(frames[df_a]) * Len(frames[df_b])

PairSet(pairs) == Range(pairs)

\* C3: blocking on zipcode returns every pair (a of A, b of B) with equal zip
\* codes and no pair with different zip codes, whatever the other fields are.
C3_BlockingIsZipEquality ==
    pc \in AfterBlock =>
        LET A == frames[df_a]
            B == frames[df_b]
        IN  \A i \in 1..Len(A), j \in 1..Len(B) :
               (A[i].zipcode = B[j].zipcode) <=>
                  (<<A[i].id, B[j].id>> \in PairSet(candidate_pairs))

\* a pair that agrees on every other field is left out for its zip code, and
\* a pair that differs in first name and birth year is kept for its zip code
C3_Witness ==
    /\ pc \in AfterBlock
    /\ LET A == frames[df_a]
           B == frames[df_b]
       IN  /\ \E i \in 1..Len(A), j \in 1..Len(B) :
                 /\ A[i].firstname = B[j].firstname
                 /\ A[i].lastname = B[j].lastname
                 /\ A[i].birthyear = B[j].birthyear
                 /\ <<A[i].id, B[j].id>> \notin PairSet(candidate_pairs)
           /\ \E i \in 1..Len(A), j \in 1..Len(B) :
                 /\ A[i].firstname # B[j].firstname
                 /\ A[i].birthyear # B[j].birthyear
                 /\ <<A[i].id, B[j].id>> \in PairSet(candidate_pairs)

\* C4: every (id_a, id_b) of the exact-match result is a candidate pair of
\* the blocking on zipcode.
C4_ExactMatchesAreCandidates ==
    pc \in AfterBlock =>
        \A k \in 1..Len(det_matches) :
           <<det_matches[k].id_a, det_matches[k].id_b>> \in PairSet(candidate_pairs)

\* there are exact matches, and candidate pairs that are not exact matches
C4_Witness ==
    /\ pc \in AfterBlock
    /\ det_matches # <<>>
    /\ Len(candidate_pairs) > Len(det_matches)


\* the pairs of the cross product with equal zip codes
ZipEqualPairs ==
    { <<a.id, b.id>> : <<a, b>> \in
        { ab \in Range(frames[df_a]) \X Range(frames[df_b]) :
            ab[1].zipcode = ab[2].zipcode } }

RECURSIVE SumN(_)
SumN(rows) == IF rows = <<>> THEN 0 ELSE rows[1].n + SumN(Tail(rows))

\* C6: the keys of posterior_df are the candidate pairs of the blocking, each
\* once: a pair with different zip codes has no row, and neither the
\* threshold counts nor the bin counts count more pairs than the blocking
\* kept.
C6_PosteriorKeysAreTheCandidates ==
    pc \in AfterProb =>
        LET kept == Cardinality(ZipEqualPairs) IN
        /\ { <<posterior_df[k].id_a, posterior_df[k].id_b>> :
                k \in 1..Len(posterior_df) } = ZipEqualPairs
        /\ Len(posterior_df) = kept
        /\ Len(posterior_df) = Len(candidate_pairs)
        /\ \A i \in 1..Len(count_of_matches) : count_of_matches[i].matches <= kept
        /\ SumN(avg_dist_by_bin) <= kept

\* the run is over, some pairs were scored and some pair of the cross product
\* was excluded by the blocking
C6_Witness ==
    /\ pc = "done"
    /\ posterior_df # <<>>
    /\ Len(posterior_df) < Len(frames[df_a]) * Len(frames[df_b])
    /\ SumN(avg_dist_by_bin) > 0

IsOne(field, v) ==
    CASE field \in {"firstname", "lastname"} -> v = <<1, 1>>
      [] field = "birthyear" -> v = <<0, 1>>
      [] field = "zipcode" -> v = 1

C8_ThresholdCounts ==
    pc \in AfterSweep =>
        /\ Len(count_of_matches) = 101
        /\ \A i \in 1..Len(count_of_matches) :
              /\ count_of_matches[i].threshold * 100 = (i - 1) * ProbOne
              /\ count_of_matches[i].matches =
                    Cardinality({ c \in PairSet(candidate_pairs) :
                       \E k \in 1..Len(posterior_df) :
                          /\ <<posterior_df[k].id_a, posterior_df[k].id_b>> = c
                          /\ posterior_df[k].posterior >= count_of_matches[i].threshold })
        /\ \A i \in 1..(Len(count_of_matches) - 1) :
              count_of_matches[i].threshold < count_of_matches[i + 1].threshold

\* some pair has a posterior equal to a threshold of the grid (0.35), another
\* pair a lower one, and the counts fall along the grid
C8_Witness ==
    /\ pc \in AfterSweep
    /\ \E k \in 1..Len(posterior_df) : posterior_df[k].posterior = 3500000
    /\ \E k \in 1..Len(posterior_df) : posterior_df[k].posterior = 0
    /\ count_of_matches[1].matches > count_of_matches[36].matches
    /\ count_of_matches[36].matches > count_of_matches[37].matches

\* C9: when the blocking keeps no pair, the run completes and every later
\* table (features, posterior, threshold counts, bin diagnostics) is empty.
C9_EmptyCandidatesGiveEmptyOutputs ==
    (pc \in {"done", "raised"} /\ candidate_pairs = <<>>) =>
        /\ pc = "done"
        /\ features = <<>>
        /\ posterior_df = <<>>
        /\ count_of_matches = <<>>
        /\ avg_dist_by_bin = <<>>

\* the run has printed, or put in the posterior table, a convergence flag
ConvergenceFlagObservable ==
    \/ \E k \in 1..Len(stdout) : stdout[k].what = "convergence_failed"
    \/ \E k \in 1..Len(posterior_df) : "convergence_failed" \in DOMAIN posterior_df[k]
    \/ \E k \in 1..Len(posterior) : "convergence_failed" \in DOMAIN posterior[k]

\* C10: when the EM fit stops at its iteration cap without converging, the
\* run goes on to the posterior and gives its caller a convergence-failed
\* flag with it.
C10_NonConvergenceIsFlagged ==
    (pc \in AfterProb /\ ~ecm.converged) =>
        /\ pc # "raised"
        /\ ConvergenceFlagObservable


\* a file of the working directory is missing, or lacks a column of the header
BrokenInput ==
    \E k \in {"a", "b"} : k \notin DOMAIN files \/ Header(files[k]) # Columns

\* C11: when dataset_a.csv or dataset_b.csv is missing or malformed, the run
\* stops at the load step with an error that names the path of the file, and
\* no later stage (exact match, blocking, scoring, analysis) starts or
\* prints anything.
C11_BrokenInputStopsAtLoad ==
    BrokenInput =>
        /\ pc \in {"load", "raised_load"}
        /\ pc = "raised_load" =>
              /\ Len(stdout) = 1
              /\ stdout[1].what = "Traceback"
              /\ \E k \in {"a", "b"} : stdout[1].value[2] = Path[k]
        /\ det_matches = <<>> /\ candidate_pairs = <<>> /\ features = <<>>
        /\ posterior_df = <<>> /\ count_of_matches = <<>> /\ avg_dist_by_bin = <<>>


\* C12: the bin table has one row for each of the 10 bins, in the order of
\* the labels; a bin that holds no pair has the count 0 and the undefined
\* value (NaN) for its three mean distances, a bin that holds pairs has
\* defined means; the counts add up to the pairs with posterior above the
\* cut, and the stage does not raise for an empty bin.
C12_EmptyBinsAreUndefined ==
    /\ pc = "done" =>
          /\ Len(avg_dist_by_bin) = 10
          /\ \A b \in 1..Len(avg_dist_by_bin) :
                LET r == avg_dist_by_bin[b] IN
                /\ r.threshold_bin = bin_labels[b]
                /\ r.n = 0 => (r.mean_first = NaN /\ r.mean_last = NaN
                                /\ r.mean_birth = NaN)
                /\ r.n > 0 => (r.mean_first # NaN /\ r.mean_last # NaN
                                /\ r.mean_birth # NaN)
          /\ SumN(avg_dist_by_bin) =
                Cardinality({ k \in 1..Len(posterior_df) :
                                posterior_df[k].posterior > LowCut })
    /\ pc = "raised" =>
          \E r \in Range(frames[df_a]) \cup Range(frames[df_b]) :
             NaN \in {r.firstname, r.lastname}

\* the run is over with an empty bin and a bin that holds pairs
C12_Witness ==
    /\ pc = "done"
    /\ \E b \in 1..Len(avg_dist_by_bin) : avg_dist_by_bin[b].n = 0
    /\ \E b \in 1..Len(avg_dist_by_bin) : avg_dist_by_bin[b].n > 1


\* the rows of det_matches that pair a record with its own copy
OwnMatches == { k \in 1..Len(det_matches) : det_matches[k].id_a = det_matches[k].id_b }

\* the records of A whose copy in B differs in a noised field
ChangedByNoise ==
    { i \in 1..Len(frames[df_a]) :
        \E j \in 1..Len(frames[df_b]) :
           /\ frames[df_b][j].id = frames[df_a][i].id
           /\ \/ frames[df_b][j].firstname # frames[df_a][i].firstname
              \/ frames[df_b][j].lastname # frames[df_a][i].lastname
              \/ frames[df_b][j].birthyear # frames[df_a][i].birthyear }

\* C14 as stated: for N generated records and their noised copy, the
\* exact-match result has strictly fewer than N rows, whatever the noise
\* drew.
C14_ExactMatchCountBelowN ==
    (pc \in {"block", "compare"}) => Len(det_matches) < Len(frames[df_a])

\* C14 as amended: the exact-match rows that pair a record with its own copy
\* number N minus the records the noise changed, so that they are fewer
\* than N exactly when the noise changed some record; the total number of
\* rows also counts the pairs of different records that share all four
\* fields.
C14_OwnMatchesAreTheUnchangedRecords ==
    (pc \in {"block", "compare"}) =>
        /\ Cardinality(OwnMatches) = Len(frames[df_a]) - Cardinality(ChangedByNoise)
        /\ Cardinality(OwnMatches) <= Len(det_matches)

\* the noise changed a record, fewer than N records match their own copy,
\* and the exact-match result still has N rows
C14_Witness ==
    /\ pc = "block"
    /\ ChangedByNoise # {}
    /\ Cardinality(OwnMatches) < Len(frames[df_a])
    /\ Len(det_matches) >= Len(frames[df_a])


\* the five result tables the run is to leave on disk
ResultTables ==
    { det_matches, features, posterior_df, count_of_matches, avg_dist_by_bin }

\* C15: when the run finishes it has written a delimited text file for each
\* of the exact-match result, the comparison vectors, the posterior table,
\* the threshold-count table and the bin table: five files besides the two
\* datasets.
C15_ResultFilesWritten ==
    pc = "done" =>
        /\ Cardinality(DOMAIN files \ {"a", "b"}) = 5
        /\ \A k \in DOMAIN files \ {"a", "b"} : files[k] \in ResultTables


\* the stage a position of the script belongs to: 1 generate, 2 save,
\* 3 load, 4 exact match, 5 blocking, 6 similarity features, 7 EM fit,
\* 8 posterior, 9 threshold sweep, 10 bin diagnostics, 11 finished
Stage(p) ==
    CASE p \in {"gen", "dedup", "copy", "masks", "typo_first", "typo_last",
                "shift_birth"} -> 1
      [] p = "save" -> 2
      [] p = "load" -> 3
      [] p = "det" -> 4
      [] p = "block" -> 5
      [] p = "compare" -> 6
      [] p = "fit" -> 7
      [] p = "prob" -> 8
      [] p = "sweep" -> 9
      [] p = "bins" -> 10
      [] p = "done" -> 11
      [] OTHER -> 12

\* what the stages print, in the order of the script
StageLog ==
    << "df_a.head", "df_b.head", "Number of deterministic matches:",
       "Number of candidate pairs after blocking:", "features.head",
       "posterior_df.head", "avg_dist_by_bin" >>

\* how many of them are printed when a stage is about to start
Printed(stage) ==
    CASE stage <= 3 -> 0
      [] stage = 4 -> 2
      [] stage = 5 -> 3
      [] stage = 6 -> 4
      [] stage \in {7, 8} -> 5
      [] stage \in {9, 10} -> 6
      [] OTHER -> 7

\* a step stays in the generation or moves to the very next stage
StageStep ==
    \/ Stage(pc') = Stage(pc) /\ Stage(pc) = 1
    \/ Stage(pc') = Stage(pc) + 1 /\ Stage(pc') <= 11

\* when a stage is about to start, every earlier stage has left its whole
\* output and printed once, and no later stage has produced anything
StageOutputs ==
    LET st == Stage(pc) IN
    /\ st <= 11
    /\ [k \in 1..Len(stdout) |-> stdout[k].what] = SubSeq(StageLog, 1, Printed(st))
    /\ st <= 2 => files = [a |-> <<>>, b |-> <<>>]
    /\ st = 3 => /\ Len(files.a) = Len(frames[df_a])
                 /\ Len(files.b) = Len(frames[df_b])
    /\ st <= 3 => df_a \in {0, 1} /\ df_b \in {0, 2}
    /\ st > 3 => /\ Len(frames[df_a]) = Len(files.a)
                 /\ Len(frames[df_b]) = Len(files.b)
    /\ st <= 4 => det_matches = <<>>
    /\ st <= 5 => candidate_pairs = <<>>
    /\ st <= 6 => features = <<>>
    /\ st > 6 => Len(features) = Len(candidate_pairs)
    /\ (st <= 7) = ~ecm.fitted
    /\ st <= 8 => posterior_df = <<>>
    /\ st > 8 => Len(posterior_df) = Len(features)
    /\ st <= 9 => count_of_matches = <<>>
    /\ st > 9 => Len(count_of_matches) = 101
    /\ st <= 10 => avg_dist_by_bin = <<>>
    /\ st = 11 => Len(avg_dist_by_bin) = 10

\* C16: the stages run strictly in the order generate, save, load, exact
\* match, blocking, similarity features, EM fit, posterior, threshold sweep,
\* bin diagnostics: every step stays inside the generation or moves to the
\* very next stage, a stage starts only when the stages before it have left
\* their whole output, and no stage runs (or prints) twice.
C16_StagesRunInOrder == [][StageStep]_vars /\ []StageOutputs

\* the run is over and every stage had something to work on
C16_Witness ==
    /\ pc = "done"
    /\ det_matches # <<>>
    /\ candidate_pairs # <<>>
    /\ SumN(avg_dist_by_bin) > 0


\* C17: once the years are shifted, every row of B has the id of the row of
\* A at its position and a birth year at most 2 away from it, and a row that
\* mod_birthyear did not select has the same birth year.
C17_BirthYearShiftAtMostTwo ==
    pc \in {"save", "load"} =>
        /\ Len(frames[df_b]) = Len(frames[df_a])
        /\ \A k \in 1..Len(frames[df_a]) :
              LET a == frames[df_a][k]
                  b == frames[df_b][k]
              IN  /\ b.id = a.id
                  /\ b.birthyear - a.birthyear \in (-2)..2
                  /\ ~mod_birthyear[k] => b.birthyear = a.birthyear

\* a selected row kept its birth year (shift 0) and a selected row moved by
\* two years
C17_Witness ==
    /\ pc = "save"
    /\ \E k \in 1..Len(frames[df_a]) :
          mod_birthyear[k] /\ frames[df_b][k].birthyear = frames[df_a][k].birthyear
    /\ \E k \in 1..Len(frames[df_a]) :
          mod_birthyear[k] /\ frames[df_b][k].birthyear = frames[df_a][k].birthyear - 2

\* the positions where two strings of the same length differ
DiffPositions(s, t) == { p \in 1..Len(s) : s[p] # t[p] }

\* one iteration of a typo loop: the row it visits still held the name of A,
\* keeps its length and changes in at most num_replace positions; nothing
\* else of B changes
TypoStepSubstitutes ==
    (pc \in {"typo_first", "typo_last"} /\ it' = it + 1) =>
        LET col == IF pc = "typo_first" THEN "firstname" ELSE "lastname"
            idx == Where(IF pc = "typo_first" THEN mod_firstname ELSE mod_lastname)
            i == idx[it + 1]
            old == frames[df_b]
            new == frames'[df_b]
        IN  /\ old[i][col] = frames[df_a][i][col]
            /\ Len(new[i][col]) = Len(old[i][col])
            /\ num_replace' \in 1..Len(old[i][col])
            /\ Cardinality(DiffPositions(old[i][col], new[i][col])) <= num_replace'
            /\ new = [old EXCEPT ![i] = [@ EXCEPT ![col] = new[i][col]]]

\* after the two loops: names of B have the length they have in A, and a
\* row that was not selected has the name it has in A
NamesKeepLength ==
    pc \in {"shift_birth", "save", "load"} =>
        \A k \in 1..Len(frames[df_a]) :
           LET a == frames[df_a][k]
               b == frames[df_b][k]
           IN  /\ Len(b.firstname) = Len(a.firstname)
               /\ Len(b.lastname) = Len(a.lastname)
               /\ ~mod_firstname[k] => b.firstname = a.firstname
               /\ ~mod_lastname[k] => b.lastname = a.lastname

\* C18: name noise is substitution only: first and last names of B have the
\* length they have in A, a row not selected by mod_firstname (mod_lastname)
\* keeps its name, and a selected row, visited once, differs from the
\* original in at most num_replace positions (possibly none).
C18_NameNoiseIsSubstitution == [][TypoStepSubstitutes]_vars /\ []NamesKeepLength

\* a selected row whose substituted letter was the original one, and a
\* selected row whose name changed
C18_Witness ==
    /\ pc = "save"
    /\ \E k \in 1..Len(frames[df_a]) :
          mod_firstname[k] /\ frames[df_b][k].firstname = frames[df_a][k].firstname
    /\ \E k \in 1..Len(frames[df_a]) :
          mod_lastname[k] /\ frames[df_b][k].lastname # frames[df_a][k].lastname

\* C19: the noise changes neither id nor zipcode (in memory and in the
\* files loaded back), so that once the blocking has run, the pair (id, id)
\* of every record of A is a candidate pair.
C19_TrueMatchesSurviveBlocking ==
    /\ pc \in {"typo_first", "typo_last", "shift_birth", "save", "load",
                "det", "block", "compare"} =>
          /\ Len(frames[df_b]) = Len(frames[df_a])
          /\ \A k \in 1..Len(frames[df_a]) :
                /\ frames[df_b][k].id = frames[df_a][k].id
                /\ frames[df_b][k].zipcode = frames[df_a][k].zipcode
    /\ pc = "compare" =>
          \A k \in 1..Len(frames[df_a]) :
             <<frames[df_a][k].id, frames[df_a][k].id>> \in PairSet(candidate_pairs)

\* the blocking has run on a copy whose every noised field was changed in
\* some row
C19_Witness ==
    /\ pc = "compare"
    /\ \E k \in 1..Len(frames[df_a]) :
          /\ frames[df_b][k].firstname # frames[df_a][k].firstname
          /\ frames[df_b][k].lastname # frames[df_a][k].lastname
          /\ frames[df_b][k].birthyear # frames[df_a][k].birthyear
          /\ <<frames[df_a][k].id, frames[df_b][k].id>> \in PairSet(candidate_pairs)

LoadStepLossless ==
    (pc = "load" /\ pc' = "det") =>
        /\ frames'[df_a'] = frames[df_a]
        /\ frames'[df_b'] = frames[df_b]

\* C21: writing df_a and df_b to the two files and reading them back is
\* lossless for every outcome of the noise: every record read back has the
\* id, names, birth year and zip code that were generated, none of its
\* names is read back as a missing value, and so the edit-distance step
\* never raises.
C21_RoundTripLossless == [][LoadStepLossless]_vars /\ [](pc # "raised")


\* posterior p (in units of 1e-7) lies in the b-th right-closed tenth
\* ((b-1)/10, b/10]
InTenth(p, b) == (b - 1) * 1000000 < p /\ p <= b * 1000000

\* the rows of posterior_df above the cut 0.000001
AboveCut == { k \in 1..Len(posterior_df) : posterior_df[k].posterior > 10 }

\* C22: every pair with posterior > 0.000001 falls in exactly one of the ten
\* right-closed bins and is counted in that bin and no other, a pair with
\* posterior <= 0.000001 is counted nowhere, and the counts n add up to the
\* number of pairs with posterior > 0.000001.
C22_EveryPairInOneBin ==
    pc = "done" =>
        /\ \A k \in AboveCut :
              Cardinality({ b \in 1..10 : InTenth(posterior_df[k].posterior, b) }) = 1
        /\ \A b \in 1..10 :
              avg_dist_by_bin[b].n =
                 Cardinality({ k \in AboveCut : InTenth(posterior_df[k].posterior, b) })
        /\ SumN(avg_dist_by_bin) = Cardinality(AboveCut)

\* a pair with posterior 1.0 is counted in the last bin, a pair is counted
\* in an inner bin and a pair below the cut is left out
C22_Witness ==
    /\ pc = "done"
    /\ \E k \in 1..Len(posterior_df) : posterior_df[k].posterior = ProbOne
    /\ avg_dist_by_bin[10].n > 0
    /\ avg_dist_by_bin[4].n > 0
    /\ \E k \in 1..Len(posterior_df) : k \notin AboveCut

----------------------------------------------------------------------------
(***************************************************************************)
(* src/network_data/demo/networks.py, Part 2 and the adjacency of Part 6:  *)
(* graph -> edge list -> graph -> sparse adjacency -> normalized adjacency. *)
(* A graph is its nodes, in the order the graph object keeps them, and its *)
(* edges as pairs <<u, v>> with u < v.                                     *)
(***************************************************************************)

\* num_nodes (1000 at line 76)
NetN == 4

\* line 90: stochastic_block_model adds the nodes 0 .. num_nodes-1 in order,
\* and then each pair of them as an edge or not
SbmGraphs ==
    { [nodes |-> [k \in 1..NetN |-> k - 1], edges |-> E] :
        E \in SUBSET { e \in (0..(NetN - 1)) \X (0..(NetN - 1)) : e[1] < e[2] } }

\* list(G.edges()): the edges by first node and then by second node
Edges(g) ==
    LET s == SortedSeq({ e[1] * NetN + e[2] : e \in g.edges })
    IN  [k \in 1..Len(s) |-> << s[k] \div NetN, s[k] % NetN >>]

\* nx.from_pandas_edgelist: add_edges_from takes the rows in order and adds
\* u and then v of a row to the graph's nodes when the graph has not got it
RECURSIVE FromPandasEdgelist(_)
FromPandasEdgelist(rows) ==
    IF rows = <<>> THEN [nodes |-> <<>>, edges |-> {}]
    ELSE LET g == FromPandasEdgelist(SubSeq(rows, 1, Len(rows) - 1))
             e == rows[Len(rows)]
             withU == IF \E k \in 1..Len(g.nodes) : g.nodes[k] = e[1]
                      THEN g.nodes ELSE Append(g.nodes, e[1])
             withV == IF \E k \in 1..Len(withU) : withU[k] = e[2]
                      THEN withU ELSE Append(withU, e[2])
         IN  [nodes |-> withV,
              edges |-> g.edges \cup { << Min(e[1], e[2]), Max(e[1], e[2]) >> }]

\* nx.to_scipy_sparse_array(g) with no nodelist: row and column i (from 0)
\* stand for the i-th node of g.nodes(); nz is the set of nonzero entries
ToScipySparseArray(g) ==
    [shape |-> Len(g.nodes),
     nz |-> { ij \in (0..(Len(g.nodes) - 1)) \X (0..(Len(g.nodes) - 1)) :
                << Min(g.nodes[ij[1] + 1], g.nodes[ij[2] + 1]),
                   Max(g.nodes[ij[1] + 1], g.nodes[ij[2] + 1]) >> \in g.edges }]

\* line 90
GenerateGraph ==
    /\ pc = "net_gen"
    /\ G' \in SbmGraphs
    /\ pc' = "net_edges"
    /\ UNCHANGED <<edge_list, G2, A_csr>>
    /\ UNCHANGED <<tsVars, sqlVars, surveyVars, reproVars, llmVars>>
    /\ UNCHANGED genVars /\ UNCHANGED files /\ UNCHANGED linkVars /\ UNCHANGED simVars

\* line 143
EdgeList ==
    /\ pc = "net_edges"
    /\ edge_list' = Edges(G)
    /\ pc' = "net_rebuild"
    /\ UNCHANGED <<G, G2, A_csr>>
    /\ UNCHANGED <<tsVars, sqlVars, surveyVars, reproVars, llmVars>>
    /\ UNCHANGED genVars /\ UNCHANGED files /\ UNCHANGED linkVars /\ UNCHANGED simVars

\* line 150
Rebuild ==
    /\ pc = "net_rebuild"
    /\ G2' = FromPandasEdgelist(edge_list)
    /\ pc' = "net_adj"
    /\ UNCHANGED <<G, edge_list, A_csr>>
    /\ UNCHANGED <<tsVars, sqlVars, surveyVars, reproVars, llmVars>>
    /\ UNCHANGED genVars /\ UNCHANGED files /\ UNCHANGED linkVars /\ UNCHANGED simVars

\* line 165
Adjacency ==
    /\ pc = "net_adj"
    /\ A_csr' = ToScipySparseArray(G2)
    /\ pc' = "net_norm"
    /\ UNCHANGED <<G, edge_list, G2>>
    /\ UNCHANGED <<tsVars, sqlVars, surveyVars, reproVars, llmVars>>
    /\ UNCHANGED genVars /\ UNCHANGED files /\ UNCHANGED linkVars /\ UNCHANGED simVars

\* lines 320-321: A + I with I = sp.eye(num_nodes) raises ValueError
\* (inconsistent shapes) unless A is num_nodes x num_nodes
Normalize ==
    /\ pc = "net_norm"
    /\ pc' = IF A_csr.shape = NetN THEN "net_done" ELSE "net_raised"
    /\ UNCHANGED netVars
    /\ UNCHANGED <<tsVars, sqlVars, surveyVars, reproVars, llmVars>>
    /\ UNCHANGED genVars /\ UNCHANGED files /\ UNCHANGED linkVars /\ UNCHANGED simVars

InitNet ==
    /\ pc = "net_gen"
    /\ n = 0
    /\ files = [a |-> <<>>, b |-> <<>>]
    /\ InitCommon
    /\ sfield = "" /\ sa = <<>> /\ sb = <<>> /\ sim = <<>>

NextNet ==
    \/ GenerateGraph
    \/ EdgeList
    \/ Rebuild
    \/ Adjacency
    \/ Normalize

SpecNet == InitNet /\ [][NextNet]_vars

\* the script is past line 150 / past line 165
NetRebuilt == pc \in {"net_adj", "net_norm", "net_done", "net_raised"}
NetHasAdjacency == pc \in {"net_norm", "net_done", "net_raised"}

\* C23: rebuilding the graph from its edge list gives the same graph: G2
\* has every node of G, the nodes without edges included, and the edges of G.
C23_RebuildGivesSameGraph ==
    NetRebuilt =>
        /\ Range(G2.nodes) = Range(G.nodes)
        /\ G2.edges = G.edges

\* C24: the node order of G2 is 0 .. num_nodes-1, so that row and column i
\* of A stand for node i: A is num_nodes x num_nodes and its entry (i, j) is
\* nonzero exactly when nodes i and j are joined in G.
C24_RowIsNode ==
    NetHasAdjacency =>
        /\ G2.nodes = G.nodes
        /\ A_csr.shape = NetN
        /\ \A i, j \in 0..(NetN - 1) :
              (<<i, j>> \in A_csr.nz) <=> (<< Min(i, j), Max(i, j) >> \in G.edges)

----------------------------------------------------------------------------
(***************************************************************************)
(* src/timeseries/demo/timeseries.py, Part A: the random split and the     *)
(* time split of the points 0 .. n-1.  An index array is a sequence.       *)
(***************************************************************************)

\* the longest series (n = 600 at line 9)
TsMaxN == 10

\* line 45: int(np.floor(n * 0.20))
TestN(size) == size \div 5

\* np.random.choice(np.arange(size), size=k, replace=False): k different
\* points in the order they are drawn
Choice(size, k) ==
    { s \in [1..k -> 0..(size - 1)] : \A i, j \in 1..k : i # j => s[i] # s[j] }

TimeCutFromStart(size, k) == k
\* line 65
TimeCut(size, k) == size - k

\* lines 43-49
RandomSplit ==
    /\ pc = "ts_random"
    /\ test_n' = TestN(n)
    /\ test_idx_random' \in Choice(n, test_n')
    \* np.setdiff1d: the sorted points of all_idx that are not test points
    /\ train_idx_random' = SortedSeq((0..(n - 1)) \ Range(test_idx_random'))
    /\ pc' = "ts_time"
    /\ UNCHANGED <<train_idx_time, test_idx_time>>
    /\ UNCHANGED <<netVars, sqlVars, surveyVars, reproVars, llmVars>>
    /\ UNCHANGED genVars /\ UNCHANGED files /\ UNCHANGED linkVars /\ UNCHANGED simVars

\* lines 65-67
TimeSplit ==
    /\ pc = "ts_time"
    /\ LET cut == TimeCut(n, test_n)
           arange(lo, hi) == [k \in 1..(hi - lo) |-> lo + k - 1]
       IN  /\ train_idx_time' = arange(0, cut)
           /\ test_idx_time' = arange(cut, n)
    /\ pc' = "ts_done"
    /\ UNCHANGED <<test_n, test_idx_random, train_idx_random>>
    /\ UNCHANGED <<netVars, sqlVars, surveyVars, reproVars, llmVars>>
    /\ UNCHANGED genVars /\ UNCHANGED files /\ UNCHANGED linkVars /\ UNCHANGED simVars

InitTs ==
    /\ pc = "ts_random"
    /\ n \in 1..TsMaxN
    /\ files = [a |-> <<>>, b |-> <<>>]
    /\ InitCommon
    /\ sfield = "" /\ sa = <<>> /\ sb = <<>> /\ sim = <<>>

NextTs ==
    \/ RandomSplit
    \/ TimeSplit

SpecTs == InitTs /\ [][NextTs]_vars

\* two index arrays that share no point, repeat none and together hold
\* exactly the points 0 .. n-1
DisjointCover(train, test) ==
    /\ Range(train) \cap Range(test) = {}
    /\ Range(train) \cup Range(test) = 0..(n - 1)
    /\ Len(train) + Len(test) = n

\* every training point is earlier than every test point
TrainBeforeTest(train, test) ==
    \A i \in 1..Len(train), j \in 1..Len(test) : train[i] < test[j]

\* C25: in the time split every training index is earlier than every test
\* index, the two index arrays are disjoint and cover 0 .. n-1 and the test
\* array has floor(0.20 * n) points; the random split is a disjoint cover of
\* 0 .. n-1 with the same test size.
C25_SplitsPartitionTheSeries ==
    /\ pc \in {"ts_time", "ts_done"} =>
          /\ DisjointCover(train_idx_random, test_idx_random)
          /\ Len(test_idx_random) = n \div 5
    /\ pc = "ts_done" =>
          /\ TrainBeforeTest(train_idx_time, test_idx_time)
          /\ DisjointCover(train_idx_time, test_idx_time)
          /\ Len(test_idx_time) = n \div 5
          /\ Len(test_idx_time) = Len(test_idx_random)

\* both splits are made, with two test points each, and the random split has
\* a training point later than a test point
C25_Witness ==
    /\ pc = "ts_done"
    /\ Len(test_idx_time) = 2
    /\ ~ TrainBeforeTest(train_idx_random, test_idx_random)

----------------------------------------------------------------------------
(***************************************************************************)
(* src/databases_and_sql/demo/sql.py, Part 1: the script run again and     *)
(* again against the same campaign_finance.db.  The database is a map from *)
(* the names of the tables it holds to their rows; it outlives the process *)
(* that runs the script, the script's names do not.                        *)
(***************************************************************************)

\* runs of the script against the same file
SqlMaxRuns == 2
\* rows generated: 100 candidates (line 116), 100,000 contributors (line 149),
\* 1,000,000 contributions (line 182)
NumCandidates == 2
NumContributors == 2
NumContributions == 2

TableNames == { "contributions", "contributors", "candidates" }

\* DROP TABLE IF EXISTS name
DropTableIfExists(d, name) == [t \in (DOMAIN d) \ { name } |-> d[t]]

\* DataFrame.to_sql(name, con, if_exists="append"): the rows are inserted
\* after those the table holds; id is the PRIMARY KEY of each of the tables
ToSqlAppend(d, name, frame) == [d EXCEPT ![name] = d[name] \o frame]
KeyConflict(d, name, frame) ==
    \E i \in 1..Len(d[name]), j \in 1..Len(frame) : d[name][i].id = frame[j].id

\* lines 50-51: a new process opens the file
Connect ==
    /\ pc = "sql_connect"
    /\ runs < SqlMaxRuns
    /\ pc' = "sql_drop"
    /\ UNCHANGED sqlVars
    /\ UNCHANGED <<netVars, tsVars, surveyVars, reproVars, llmVars>>
    /\ UNCHANGED genVars /\ UNCHANGED files /\ UNCHANGED linkVars /\ UNCHANGED simVars

DropTablesSkipped ==
    /\ pc = "sql_drop"
    /\ pc' = "sql_create"
    /\ UNCHANGED sqlVars
    /\ UNCHANGED <<netVars, tsVars, surveyVars, reproVars, llmVars>>
    /\ UNCHANGED genVars /\ UNCHANGED files /\ UNCHANGED linkVars /\ UNCHANGED simVars
\* lines 60-63
DropTables ==
    /\ pc = "sql_drop"
    /\ db' = DropTableIfExists(DropTableIfExists(DropTableIfExists(db,
                 "contributions"), "contributors"), "candidates")
    /\ pc' = "sql_create"
    /\ UNCHANGED <<runs, candidates, contributors, contributions>>
    /\ UNCHANGED <<netVars, tsVars, surveyVars, reproVars, llmVars>>
    /\ UNCHANGED genVars /\ UNCHANGED files /\ UNCHANGED linkVars /\ UNCHANGED simVars

\* lines 73-104: CREATE TABLE raises OperationalError when the table exists
CreateTables ==
    /\ pc = "sql_create"
    /\ IF TableNames \cap DOMAIN db # {}
       THEN pc' = "sql_raised" /\ UNCHANGED db
       ELSE /\ db' = [t \in TableNames |-> <<>>]
            /\ pc' = "sql_generate"
    /\ UNCHANGED <<runs, candidates, contributors, contributions>>
    /\ UNCHANGED <<netVars, tsVars, surveyVars, reproVars, llmVars>>
    /\ UNCHANGED genVars /\ UNCHANGED files /\ UNCHANGED linkVars /\ UNCHANGED simVars

\* lines 113-205: ids 1 .. N in each DataFrame; a contribution names a
\* contributor and a candidate drawn with randint (lines 184-185)
Generate ==
    /\ pc = "sql_generate"
    /\ candidates' = [i \in 1..NumCandidates |-> [id |-> i]]
    /\ contributors' = [i \in 1..NumContributors |-> [id |-> i]]
    /\ \E who \in [1..NumContributions -> 1..NumContributors],
          whom \in [1..NumContributions -> 1..NumCandidates] :
          contributions' = [i \in 1..NumContributions |->
              [id |-> i, contributor_id |-> who[i], candidate_id |-> whom[i]]]
    /\ pc' = "sql_insert"
    /\ UNCHANGED <<db, runs>>
    /\ UNCHANGED <<netVars, tsVars, surveyVars, reproVars, llmVars>>
    /\ UNCHANGED genVars /\ UNCHANGED files /\ UNCHANGED linkVars /\ UNCHANGED simVars

\* lines 213-216: an INSERT of an id the table holds raises IntegrityError
\* and what the earlier to_sql calls wrote stays
Insert ==
    /\ pc = "sql_insert"
    /\ LET d1 == ToSqlAppend(db, "candidates", candidates)
           d2 == ToSqlAppend(d1, "contributors", contributors)
           d3 == ToSqlAppend(d2, "contributions", contributions)
       IN  IF KeyConflict(db, "candidates", candidates)
           THEN pc' = "sql_raised" /\ UNCHANGED db
           ELSE IF KeyConflict(d1, "contributors", contributors)
           THEN pc' = "sql_raised" /\ db' = d1
           ELSE IF KeyConflict(d2, "contributions", contributions)
           THEN pc' = "sql_raised" /\ db' = d2
           ELSE pc' = "sql_inserted" /\ db' = d3
    /\ UNCHANGED <<runs, candidates, contributors, contributions>>
    /\ UNCHANGED <<netVars, tsVars, surveyVars, reproVars, llmVars>>
    /\ UNCHANGED genVars /\ UNCHANGED files /\ UNCHANGED linkVars /\ UNCHANGED simVars

\* lines 219-500: indexes and queries, which leave the rows alone, and
\* con.close(): the run is complete and the file stays
Finish ==
    /\ pc = "sql_inserted"
    /\ runs' = runs + 1
    /\ candidates' = <<>> /\ contributors' = <<>> /\ contributions' = <<>>
    /\ pc' = "sql_connect"
    /\ UNCHANGED db
    /\ UNCHANGED <<netVars, tsVars, surveyVars, reproVars, llmVars>>
    /\ UNCHANGED genVars /\ UNCHANGED files /\ UNCHANGED linkVars /\ UNCHANGED simVars

\* the process is stopped between two statements: the file keeps what was
\* committed and the next run starts at line 50
Interrupt ==
    /\ pc \in {"sql_drop", "sql_create", "sql_generate", "sql_insert"}
    /\ candidates' = <<>> /\ contributors' = <<>> /\ contributions' = <<>>
    /\ pc' = "sql_connect"
    /\ UNCHANGED <<db, runs>>
    /\ UNCHANGED <<netVars, tsVars, surveyVars, reproVars, llmVars>>
    /\ UNCHANGED genVars /\ UNCHANGED files /\ UNCHANGED linkVars /\ UNCHANGED simVars

InitSql ==
    /\ pc = "sql_connect"
    /\ n = 0
    /\ files = [a |-> <<>>, b |-> <<>>]
    /\ InitCommon
    /\ sfield = "" /\ sa = <<>> /\ sb = <<>> /\ sim = <<>>

NextSql ==
    \/ Connect
    \/ DropTables
    \/ CreateTables
    \/ Generate
    \/ Insert
    \/ Finish
    \/ Interrupt

SpecSql == InitSql /\ [][NextSql]_vars

\* the primary keys of a table are all different
UniqueIds(rows) == \A i, j \in 1..Len(rows) : i # j => rows[i].id # rows[j].id

\* C26: however often the script is run against the same file, no run
\* raises, and when a run has inserted its data the three tables hold exactly
\* the rows that run generated (100 candidates, 100,000 contributors and
\* 1,000,000 contributions at the script's sizes) with unique primary keys.
C26_RerunLeavesOneCopy ==
    /\ pc # "sql_raised"
    /\ pc = "sql_inserted" =>
          /\ DOMAIN db = TableNames
          /\ db["candidates"] = candidates
          /\ db["contributors"] = contributors
          /\ db["contributions"] = contributions
          /\ Len(db["candidates"]) = NumCandidates
          /\ Len(db["contributors"]) = NumContributors
          /\ Len(db["contributions"]) = NumContributions
          /\ \A t \in TableNames : UniqueIds(db[t])

\* a second run, against the file the first complete run left, has inserted
\* its data
C26_Witness ==
    /\ pc = "sql_inserted"
    /\ runs >= 1

----------------------------------------------------------------------------
(***************************************************************************)
(* src/survey_platform_crowdsourcing/demo/survey_exports_cleaning.py,      *)
(* Parts 5 and 6: the quality flags and the analysis-ready dataset.  A row *)
(* of survey_clean holds the columns the flags read; a key variable is the *)
(* text of its value, or NaN.                                              *)
(***************************************************************************)

\* respondents in the export (12 at lines 70-123)
SurveyRows == 2

\* the rows Parts 2 and 4 (lines 129-245) can leave for respondent i: a
\* cleaned value, or NaN where the export was blank or refused
CleanRows(i) ==
    [responseid : { i },
     consent : { "Yes", "No" },
     duration_seconds : { 119, 120 },
     attentioncheck : { "Strongly disagree", "Agree" },
     age_num : { <<"34">>, NaN },
     gender : { <<"Woman">>, NaN },
     party_id_num : { <<"1">> },
     q1_num : { <<"4">>, NaN },
     q2_num : { <<"4">>, <<"5">> },
     q3_num : { <<"4">> },
     q4_num : { <<"4">> }]

\* lines 254-267: the flag columns of one row
QualityFlags(r) ==
    LET key_vars == << r.age_num, r.gender, r.party_id_num,
                       r.q1_num, r.q2_num, r.q3_num, r.q4_num >>
        missing == Cardinality({ k \in 1..7 : key_vars[k] = NaN })
        \* == of pandas: False when either side is NaN
        eq(x, y) == x # NaN /\ y # NaN /\ x = y
    IN  [flag_fast |-> r.duration_seconds < 120,
         flag_attention_fail |-> r.attentioncheck # "Strongly disagree",
         \* missing_share = missing / 7 > 0.30
         flag_missing_high |-> 10 * missing > 3 * 7,
         flag_straightline |-> /\ eq(r.q1_num, r.q2_num)
                               /\ eq(r.q2_num, r.q3_num)
                               /\ eq(r.q3_num, r.q4_num),
         flag_no_consent |-> r.consent # "Yes"]

KeepUnlessStraightline(r) ==
    /\ ~ r.flag_no_consent /\ ~ r.flag_fast
    /\ ~ r.flag_attention_fail /\ ~ r.flag_missing_high
    /\ ~ r.flag_straightline
\* lines 299-302: the mask of survey_clean.loc[...]
Keep(r) ==
    /\ ~ r.flag_no_consent /\ ~ r.flag_fast
    /\ ~ r.flag_attention_fail /\ ~ r.flag_missing_high

\* lines 129-245
Clean ==
    /\ pc = "survey_clean"
    /\ \E rows \in [1..SurveyRows -> UNION { CleanRows(i) : i \in 1..SurveyRows }] :
          /\ \A i \in 1..SurveyRows : rows[i].responseid = i
          /\ survey_clean' = rows
    /\ pc' = "survey_flags"
    /\ UNCHANGED survey_final
    /\ UNCHANGED <<netVars, tsVars, sqlVars, reproVars, llmVars>>
    /\ UNCHANGED genVars /\ UNCHANGED files /\ UNCHANGED linkVars /\ UNCHANGED simVars

\* lines 254-267
QualityChecks ==
    /\ pc = "survey_flags"
    /\ survey_clean' = [k \in 1..Len(survey_clean) |->
                           survey_clean[k] @@ QualityFlags(survey_clean[k])]
    /\ pc' = "survey_filter"
    /\ UNCHANGED survey_final
    /\ UNCHANGED <<netVars, tsVars, sqlVars, reproVars, llmVars>>
    /\ UNCHANGED genVars /\ UNCHANGED files /\ UNCHANGED linkVars /\ UNCHANGED simVars

\* lines 298-303
FilterFinal ==
    /\ pc = "survey_filter"
    /\ LET kept == Where([k \in 1..Len(survey_clean) |-> Keep(survey_clean[k])])
       IN  survey_final' = [k \in 1..Len(kept) |-> survey_clean[kept[k]]]
    /\ pc' = "survey_done"
    /\ UNCHANGED survey_clean
    /\ UNCHANGED <<netVars, tsVars, sqlVars, reproVars, llmVars>>
    /\ UNCHANGED genVars /\ UNCHANGED files /\ UNCHANGED linkVars /\ UNCHANGED simVars

InitSurvey ==
    /\ pc = "survey_clean"
    /\ n = 0
    /\ files = [a |-> <<>>, b |-> <<>>]
    /\ InitCommon
    /\ sfield = "" /\ sa = <<>> /\ sb = <<>> /\ sim = <<>>

NextSurvey ==
    \/ Clean
    \/ QualityChecks
    \/ FilterFinal

SpecSurvey == InitSurvey /\ [][NextSurvey]_vars

\* none of the four flags the claim names is set in row r
FourFlagsClear(r) ==
    /\ r.flag_no_consent = FALSE
    /\ r.flag_fast = FALSE
    /\ r.flag_attention_fail = FALSE
    /\ r.flag_missing_high = FALSE

\* C27: survey_final holds exactly the rows of survey_clean for which
\* flag_no_consent, flag_fast, flag_attention_fail and flag_missing_high are
\* all false, once each and in their order, whatever flag_straightline is.
C27_FinalIsTheUnflaggedRows ==
    pc = "survey_done" =>
        /\ \A k \in 1..Len(survey_clean) :
              FourFlagsClear(survey_clean[k]) <=> survey_clean[k] \in Range(survey_final)
        /\ Len(survey_final) =
              Cardinality({ k \in 1..Len(survey_clean) : FourFlagsClear(survey_clean[k]) })
        /\ \A i, j \in 1..Len(survey_final) :
              i < j => survey_final[i].responseid < survey_final[j].responseid

\* a straightlining respondent is kept and a respondent with a four-flag
\* set is dropped
C27_Witness ==
    /\ pc = "survey_done"
    /\ \E k \in 1..Len(survey_final) : survey_final[k].flag_straightline
    /\ Len(survey_final) < Len(survey_clean)

----------------------------------------------------------------------------
(***************************************************************************)
(* src/reproducibility/demo/reproducibility.py, Part 7: the key steps run  *)
(* twice, each time after np.random.seed(123), and the results compared.   *)
(* numpy's global generator is a deterministic generator of which nothing  *)
(* else is assumed: rng holds its parameters a and c and its state, a draw *)
(* moves the state to (a * state + c) % RngMod and is read off the new     *)
(* state.  Probabilities are in percent.                                   *)
(***************************************************************************)

\* states of the generator
RngMod == 32
\* rows generated (n1 = n2 = 5000 at lines 428, 467)
ReproRows == 2
\* bootstrap replicates (B_check = 200 at line 455)
ReproBoots == 2
\* lines 426, 465
SeedValue == 123

SeedIgnored(r, v) == r
\* np.random.seed(v): the state is set from v alone
Seed(r, v) == [r EXCEPT !.state = v % RngMod]

\* lines 428-462 (run 1) and 467-500 (run 2), from the generator r: the
\* summary, the bootstrap samples the coefficients are fitted to, and the
\* generator the run leaves
Pipeline(r) ==
    LET draws == 4 * ReproRows + ReproBoots * ReproRows
        st[k \in 0..draws] ==
            IF k = 0 THEN r.state ELSE (r.a * st[k - 1] + r.c) % RngMod
        rows == 1..ReproRows
        \* np.random.randint(18, 90)
        age(i) == 18 + (st[i] * (90 - 18)) \div RngMod
        \* np.random.choice(..., p=[0.46, 0.46, 0.08])
        u(k) == (st[k] * 100) \div RngMod
        party(i) == IF u(ReproRows + i) < 46 THEN "Democrat"
                    ELSE IF u(ReproRows + i) < 92 THEN "Republican"
                    ELSE "Independent"
        party_effect(i) == IF party(i) = "Democrat" THEN 5
                           ELSE IF party(i) = "Republican" THEN 3 ELSE -2
        age_effect(i) == ((age(i) - 18) * 35) \div (90 - 18)
        \* np.random.normal(0, 0.05): a draw around 0
        noise(i) == ((st[2 * ReproRows + i] * 30) \div RngMod) - 15
        p_turnout(i) == Max(1, Min(99, 35 + age_effect(i) + party_effect(i) + noise(i)))
        \* (np.random.rand(n) < p_turnout).astype(int)
        turnout(i) == IF u(3 * ReproRows + i) < p_turnout(i) THEN 1 ELSE 0
        cleaned == [i \in rows |-> [age |-> age(i), party |-> party(i),
                                    turnout |-> turnout(i)]]
        \* groupby("party") sorts the groups by party
        of(q) == { i \in rows : party(i) = q }
        voted(q) == Cardinality({ i \in of(q) : turnout(i) = 1 })
        groups == SelectSeq(<< "Democrat", "Independent", "Republican" >>,
                            LAMBDA q : of(q) # {})
        \* np.random.randint(0, row_boot, size=(B_check, row_boot))
        boot_rows(z, j) ==
            (st[4 * ReproRows + (z - 1) * ReproRows + j] * ReproRows) \div RngMod
    IN  [turnout_by_party |->
             [g \in 1..Len(groups) |->
                 [party |-> groups[g],
                  turnout_rate |-> Frac(voted(groups[g]), Cardinality(of(groups[g]))),
                  n |-> Cardinality(of(groups[g]))]],
         \* the rows cleaned.iloc[boot_rows[z]] each model is fitted to
         boot_coef |-> [z \in 1..ReproBoots |->
                           [j \in rows |-> cleaned[boot_rows(z, j) + 1]]],
         rng |-> [r EXCEPT !.state = st[draws]]]

\* lines 53-266: the generator numpy was built with, in the state the draws
\* of Parts 1 to 5 leave it
EarlierDraws ==
    /\ pc = "repro_earlier"
    /\ rng' \in [a : { 1, 5, 9, 13 }, c : { 1, 3, 5, 7 }, state : 0..(RngMod - 1)]
    /\ pc' = "repro_run1"
    /\ UNCHANGED <<turnout_by_party_1, turnout_by_party_2, boot_coef_1, boot_coef_2,
                   same_turnout, same_bootcoef>>
    /\ UNCHANGED <<netVars, tsVars, sqlVars, surveyVars, llmVars>>
    /\ UNCHANGED genVars /\ UNCHANGED files /\ UNCHANGED linkVars /\ UNCHANGED simVars

\* lines 426-462
Run1 ==
    /\ pc = "repro_run1"
    /\ LET out == Pipeline(Seed(rng, SeedValue))
       IN  /\ turnout_by_party_1' = out.turnout_by_party
           /\ boot_coef_1' = out.boot_coef
           /\ rng' = out.rng
    /\ pc' = "repro_run2"
    /\ UNCHANGED <<turnout_by_party_2, boot_coef_2, same_turnout, same_bootcoef>>
    /\ UNCHANGED <<netVars, tsVars, sqlVars, surveyVars, llmVars>>
    /\ UNCHANGED genVars /\ UNCHANGED files /\ UNCHANGED linkVars /\ UNCHANGED simVars

\* lines 465-500
Run2 ==
    /\ pc = "repro_run2"
    /\ LET out == Pipeline(Seed(rng, SeedValue))
       IN  /\ turnout_by_party_2' = out.turnout_by_party
           /\ boot_coef_2' = out.boot_coef
           /\ rng' = out.rng
    /\ pc' = "repro_compare"
    /\ UNCHANGED <<turnout_by_party_1, boot_coef_1, same_turnout, same_bootcoef>>
    /\ UNCHANGED <<netVars, tsVars, sqlVars, surveyVars, llmVars>>
    /\ UNCHANGED genVars /\ UNCHANGED files /\ UNCHANGED linkVars /\ UNCHANGED simVars

\* lines 503-504
Compare ==
    /\ pc = "repro_compare"
    /\ same_turnout' = (turnout_by_party_1 = turnout_by_party_2)
    /\ same_bootcoef' = (boot_coef_1 = boot_coef_2)
    /\ pc' = "repro_done"
    /\ UNCHANGED <<rng, turnout_by_party_1, turnout_by_party_2, boot_coef_1, boot_coef_2>>
    /\ UNCHANGED <<netVars, tsVars, sqlVars, surveyVars, llmVars>>
    /\ UNCHANGED genVars /\ UNCHANGED files /\ UNCHANGED linkVars /\ UNCHANGED simVars

InitRepro ==
    /\ pc = "repro_earlier"
    /\ n = 0
    /\ files = [a |-> <<>>, b |-> <<>>]
    /\ InitCommon
    /\ sfield = "" /\ sa = <<>> /\ sb = <<>> /\ sim = <<>>

NextRepro ==
    \/ EarlierDraws
    \/ Run1
    \/ Run2
    \/ Compare

SpecRepro == InitRepro /\ [][NextRepro]_vars

\* C28: the two runs, each started by resetting the seed to 123, produce
\* identical objects whatever was drawn before the first reset and whatever
\* the first run drew: same_turnout and same_bootcoef are both True.
C28_SeededRunsAgree ==
    /\ pc \in {"repro_compare", "repro_done"} =>
          /\ turnout_by_party_1 = turnout_by_party_2
          /\ boot_coef_1 = boot_coef_2
    /\ pc = "repro_done" => (same_turnout = TRUE /\ same_bootcoef = TRUE)

\* both runs are compared; the summary has a row for more than one party
\* and the two bootstrap samples of a run differ
C28_Witness ==
    /\ pc = "repro_done"
    /\ same_turnout = TRUE /\ same_bootcoef = TRUE
    /\ Len(turnout_by_party_1) > 1
    /\ boot_coef_1[1] # boot_coef_1[2]

----------------------------------------------------------------------------
(***************************************************************************)
(* src/llm_human_interface/demo/llm_human.py, Parts 4 to 6: one extracted  *)
(* record per document, the review flags and the audit sheet.  Document i  *)
(* is doc_00i and its doc_id is written i; a record keeps in raw_text the  *)
(* document it was extracted from.  Confidence is in percent; an optional  *)
(* field is its text, or NaN for null.                                     *)
(***************************************************************************)

\* documents of the corpus (15 at lines 147-208)
LlmDocs == 3
\* audit_random_n (5 at line 343)
AuditRandomN == 1

\* lines 271-283: what the model can answer for document i.  The answer is
\* bound by the schema of lines 100-136 only: its doc_id is a string the
\* model writes (here document i's own or document 1's), nothing sets it
\* from docs_df
LlmResponses(i) ==
    [doc_id : { i, 1 },
     raw_text : { i },
     extraction_confidence : { 69, 70 },
     event_date_iso : { <<"2026-03-14">>, NaN },
     country : { <<"Chile">>, NaN },
     geo_precision : { "city_or_local", "country_only", "unknown" }]

\* lines 315-323: the flag columns of one record
ReviewFlags(r) ==
    LET low == r.extraction_confidence < 70
        no_date == r.event_date_iso = NaN
        no_country == r.country = NaN
        geo == r.geo_precision \in { "unknown", "country_only" }
    IN  [flag_low_confidence |-> low,
         flag_missing_date |-> no_date,
         flag_missing_country |-> no_country,
         flag_geo_unknown |-> geo,
         needs_human_review |-> low \/ no_date \/ no_country \/ geo]

\* lines 261-293
Extract ==
    /\ pc = "llm_extract"
    /\ \E answers \in [1..LlmDocs -> UNION { LlmResponses(i) : i \in 1..LlmDocs }] :
          /\ \A i \in 1..LlmDocs : answers[i] \in LlmResponses(i)
          /\ extractions_df' = answers
    /\ pc' = "llm_flags"
    /\ UNCHANGED <<audit_random, audit_flagged, audit_sheet>>
    /\ UNCHANGED <<netVars, tsVars, sqlVars, surveyVars, reproVars>>
    /\ UNCHANGED genVars /\ UNCHANGED files /\ UNCHANGED linkVars /\ UNCHANGED simVars

\* lines 312-323
FlagForReview ==
    /\ pc = "llm_flags"
    /\ extractions_df' = [k \in 1..Len(extractions_df) |->
                             extractions_df[k] @@ ReviewFlags(extractions_df[k])]
    /\ pc' = "llm_audit"
    /\ UNCHANGED <<audit_random, audit_flagged, audit_sheet>>
    /\ UNCHANGED <<netVars, tsVars, sqlVars, surveyVars, reproVars>>
    /\ UNCHANGED genVars /\ UNCHANGED files /\ UNCHANGED linkVars /\ UNCHANGED simVars

\* lines 343-349
Audit ==
    /\ pc = "llm_audit"
    \* sample(n=audit_random_n): that many different rows, in drawn order
    /\ \E picked \in [1..AuditRandomN -> 1..Len(extractions_df)] :
          /\ \A i, j \in 1..AuditRandomN : i # j => picked[i] # picked[j]
          /\ audit_random' = [k \in 1..AuditRandomN |-> extractions_df[picked[k]]]
    /\ LET flagged == Where([k \in 1..Len(extractions_df) |->
                                extractions_df[k].needs_human_review])
       IN  audit_flagged' = [k \in 1..Len(flagged) |-> extractions_df[flagged[k]]]
    /\ LET both == audit_random' \o audit_flagged'
           \* drop_duplicates(subset=["doc_id"]) keeps the first row of a doc_id
           first == Where([k \in 1..Len(both) |->
                              ~ \E j \in 1..(k - 1) : both[j].doc_id = both[k].doc_id])
           \* sort_values("doc_id").reset_index(drop=True)
           ids == SortedSeq({ both[k].doc_id : k \in 1..Len(both) })
       IN  audit_sheet' = [k \in 1..Len(ids) |->
               both[CHOOSE f \in Range(first) : both[f].doc_id = ids[k]]]
    /\ pc' = "llm_done"
    /\ UNCHANGED extractions_df
    /\ UNCHANGED <<netVars, tsVars, sqlVars, surveyVars, reproVars>>
    /\ UNCHANGED genVars /\ UNCHANGED files /\ UNCHANGED linkVars /\ UNCHANGED simVars

InitLlm ==
    /\ pc = "llm_extract"
    /\ n = 0
    /\ files = [a |-> <<>>, b |-> <<>>]
    /\ InitCommon
    /\ sfield = "" /\ sa = <<>> /\ sb = <<>> /\ sim = <<>>

NextLlm ==
    \/ Extract
    \/ FlagForReview
    \/ Audit

SpecLlm == InitLlm /\ [][NextLlm]_vars

\* the documents whose records are in a table
Documents(t) == { t[k].raw_text : k \in 1..Len(t) }

\* C29: needs_human_review is true for a document exactly when at least one
\* of its four flags is true, and the audit sheet holds every document that
\* needs review and every document of the random sample, each doc_id once.
C29_AuditSheetCoversFlagged ==
    /\ pc \in {"llm_audit", "llm_done"} =>
          \A k \in 1..Len(extractions_df) :
             extractions_df[k].needs_human_review <=>
                \/ extractions_df[k].flag_low_confidence
                \/ extractions_df[k].flag_missing_date
                \/ extractions_df[k].flag_missing_country
                \/ extractions_df[k].flag_geo_unknown
    /\ pc = "llm_done" =>
          /\ \A k \in 1..Len(extractions_df) :
                extractions_df[k].needs_human_review =>
                   extractions_df[k].raw_text \in Documents(audit_sheet)
          /\ Documents(audit_random) \subseteq Documents(audit_sheet)
          /\ \A i, j \in 1..Len(audit_sheet) :
                i # j => audit_sheet[i].doc_id # audit_sheet[j].doc_id

====
